---- MODULE Spec2Model ----
(***************************************************************************)
(* Model of the US school districts lookup service.                        *)
(*                                                                         *)
(*   - the SQLite service: the prepared statements stmtBbox / stmtNearest, *)
(*     lookupDistrict and the routes GET /school-district, POST /lookup    *)
(*     and POST /school-districts/batch;                                   *)
(*   - the R-tree service: lookupSchoolDistrict, loadDistrictGeometry with *)
(*     its geometry cache, and the same three routes;                      *)
(*   - the LRUCache class;                                                 *)
(*   - the process of either server: start, sockets and shutdown;          *)
(*   - the offline build createDatabase of setup-database.ts;              *)
(*   - formatGrade and formatGradeLevel;                                   *)
(*   - download of the R-tree service, with its retries.                   *)
(*                                                                         *)
(* Coordinates are integers (degrees) drawn from a small grid that holds   *)
(* the limits of the accepted range and their neighbours.  A decoded       *)
(* geometry is the set of grid points it contains, so                      *)
(* booleanPointInPolygon(pt, g) is pt \in g.                               *)
(***************************************************************************)
EXTENDS Integers, Sequences, FiniteSets, TLC

\* ------------------------------------------------------------------------
\* Bounds of the model
\* ------------------------------------------------------------------------
\* rows of the store in the lookup-level specification
MaxDistricts == 6

\* rows of the store in the route-level specification
MaxRouteRows == 2

\* coordinates in one batch request
MaxBatch == 2

\* largest capacity of an LRUCache; the keys are one more than that
MaxCapacity == 3

\* values stored in an LRUCache
MaxValues == 2

\* records of the shapefile of the R-tree service
MaxRecords == 2

\* largest config.cache.geometryCacheSize of the R-tree service
MaxGeometryCacheSize == 1

\* requests the R-tree service handles concurrently
MaxQueries == 2

\* ------------------------------------------------------------------------
\* JavaScript numbers: a finite number, NaN, or +/-Infinity
\* ------------------------------------------------------------------------
Num(n) == [k |-> "num", v |-> n]

NaN == [k |-> "nan", v |-> 0]

PosInf == [k |-> "inf", v |-> 1]

NegInf == [k |-> "inf", v |-> -1]

isNaN(x) == x.k = "nan"

IsFinite(x) == x.k = "num"

\* a < b on JavaScript numbers (false when either side is NaN)
NumLT(a, b) ==
    CASE a.k = "nan" \/ b.k = "nan" -> FALSE
      [] a.k = "num" /\ b.k = "num" -> a.v < b.v
      [] a.k = "num" /\ b.k = "inf" -> b.v = 1
      [] a.k = "inf" /\ b.k = "num" -> a.v = -1
      [] OTHER -> a.v < b.v

NumLE(a, b) ==
    CASE a.k = "nan" \/ b.k = "nan" -> FALSE
      [] OTHER -> ~NumLT(b, a)

\* ------------------------------------------------------------------------
\* Request texts and their conversions
\* ------------------------------------------------------------------------
\* A query-string parameter: the decimal text of an integer, that text
\* followed by letters ("45abc"), "Infinity" / "-Infinity", a word, the
\* empty string, or no parameter at all.
TxtInt(n) == [t |-> "int", v |-> n]

TxtIntJunk(n) == [t |-> "intjunk", v |-> n]

TxtInf(s) == [t |-> "inf", v |-> s]

TxtWord == [t |-> "word", v |-> 0]

TxtEmpty == [t |-> "empty", v |-> 0]

TxtAbsent == [t |-> "absent", v |-> 0]

\* parseFloat(s): the longest numeric prefix, NaN when there is none
parseFloat(s) ==
    CASE s.t = "int" -> Num(s.v)
      [] s.t = "intjunk" -> Num(s.v)
      [] s.t = "inf" -> [k |-> "inf", v |-> s.v]
      [] OTHER -> NaN

\* Number(s): the whole text must be numeric; "" is 0; undefined is NaN
Number(s) ==
    CASE s.t = "int" -> Num(s.v)
      [] s.t = "inf" -> [k |-> "inf", v |-> s.v]
      [] s.t = "empty" -> Num(0)
      [] OTHER -> NaN

\* ------------------------------------------------------------------------
\* Optional values: <<>> is null / absent, <<x>> is x
\* ------------------------------------------------------------------------
None == <<>>

Some(x) == <<x>>

\* ------------------------------------------------------------------------
\* The coordinate grid
\* ------------------------------------------------------------------------
LAT_MIN == 18

LAT_MAX == 72

LNG_MIN == -180

LNG_MAX == -65

\* an interior latitude and longitude of the accepted range
MidLat == (LAT_MIN + LAT_MAX) \div 2

MidLng == (LNG_MIN + LNG_MAX) \div 2

LatGrid == {LAT_MIN - 1, LAT_MIN, MidLat, LAT_MAX, LAT_MAX + 1}

LngGrid == {LNG_MIN - 1, LNG_MIN, MidLng, LNG_MAX, LNG_MAX + 1}

\* ------------------------------------------------------------------------
\* The district store (table districts of districts.db)
\* ------------------------------------------------------------------------
\* The geometry column is a text: either the JSON of a polygon, decoded
\* here to the set of grid points <<lng, lat>> it contains, or a text that
\* JSON.parse / polygon() reject (ok = FALSE).
GeometryWest == [ok |-> TRUE, cells |-> {<<LNG_MIN, LAT_MIN>>, <<MidLng, MidLat>>}]

GeometryEast ==
    [ok |-> TRUE,
     cells |-> {<<MidLng, MidLat>>, <<LNG_MAX, LAT_MAX>>, <<LNG_MAX + 1, LAT_MAX + 1>>}]

GeometryBad == [ok |-> FALSE, cells |-> {}]

\* center(feature) of turf: the centre of the bounding box
center(min, max) == (min + max) \div 2

\* A row's bounding box, centre and geometry.  The box of a row covers its
\* geometry (createDatabase computes it from the unsimplified feature); it
\* need not be tight.
Shape(min_lng, max_lng, min_lat, max_lat, geometry) ==
    [min_lng |-> min_lng, max_lng |-> max_lng, min_lat |-> min_lat, max_lat |-> max_lat,
     center_lng |-> center(min_lng, max_lng), center_lat |-> center(min_lat, max_lat),
     geometry |-> geometry]

Shapes ==
    { Shape(LNG_MIN, MidLng, LAT_MIN, MidLat, GeometryWest),
      Shape(MidLng, LNG_MAX + 1, MidLat, LAT_MAX + 1, GeometryEast),
      Shape(LNG_MIN, LNG_MAX, LAT_MIN, LAT_MAX, GeometryBad) }

\* Row i of a store: the shape with the primary key id = i
DistrictRow(i, shape) ==
    [districtId |-> i, districtName |-> i,
     min_lng |-> shape.min_lng, max_lng |-> shape.max_lng,
     min_lat |-> shape.min_lat, max_lat |-> shape.max_lat,
     center_lng |-> shape.center_lng, center_lat |-> shape.center_lat,
     geometry |-> shape.geometry]

\* All stores of at most n rows, in the order a table scan visits them
Stores(n) ==
    UNION { { [i \in 1..len |-> DistrictRow(i, f[i])] : f \in [1..len -> Shapes] } : len \in 0..n }

\* ------------------------------------------------------------------------
\* The prepared statements
\* ------------------------------------------------------------------------
\* column <= ? and column >= ? of SQLite, the parameter being a REAL that may
\* be +/-Infinity
ColLE(col, x) == NumLE(Num(col), x)

ColGE(col, x) == NumLE(x, Num(col))

\* stmtBbox with strict comparisons: a point on the edge of a box is missed
stmtBbox_Strict(rows, lng, lat) ==
    SelectSeq(rows, LAMBDA r :
        /\ NumLT(Num(r.min_lng), lng) /\ NumLT(lng, Num(r.max_lng))
        /\ NumLT(Num(r.min_lat), lat) /\ NumLT(lat, Num(r.max_lat)))

\* stmtBbox with max_lng > ? and max_lat > ?: a box without its upper edges
stmtBbox_HalfOpen(rows, lng, lat) ==
    SelectSeq(rows, LAMBDA r :
        /\ ColLE(r.min_lng, lng) /\ NumLT(lng, Num(r.max_lng))
        /\ ColLE(r.min_lat, lat) /\ NumLT(lat, Num(r.max_lat)))

\* stmtBbox.all(lng, lng, lat, lat): the rows whose box covers the point, in
\* scan order
stmtBbox(rows, lng, lat) ==
    SelectSeq(rows, LAMBDA r :
        /\ ColLE(r.min_lng, lng) /\ ColGE(r.max_lng, lng)
        /\ ColLE(r.min_lat, lat) /\ ColGE(r.max_lat, lat))

\* dist_sq of stmtNearest: Infinity for every row when a parameter is infinite
dist_sq(r, lng, lat) ==
    IF IsFinite(lng) /\ IsFinite(lat)
    THEN Num((r.center_lng - lng.v) * (r.center_lng - lng.v)
             + (r.center_lat - lat.v) * (r.center_lat - lat.v))
    ELSE PosInf

NEAREST_LIMIT == 5

\* Whether row i precedes row j in ORDER BY dist_sq.  SQL leaves the order of
\* rows with equal dist_sq open: tie says whether the sorter keeps or
\* reverses the scan order among them.
Precedes(rows, i, j, lng, lat, tie) ==
    LET di == dist_sq(rows[i], lng, lat)
        dj == dist_sq(rows[j], lng, lat)
    IN  \/ NumLT(di, dj)
        \/ /\ di = dj
           /\ IF tie = "scan" THEN i < j ELSE i > j

\* stmtNearest without its ORDER BY: the first five rows of the scan
stmtNearest_Unordered(rows, lng, lat, tie) ==
    SubSeq(rows, 1, IF Len(rows) < NEAREST_LIMIT THEN Len(rows) ELSE NEAREST_LIMIT)

\* stmtNearest.all(lng, lng, lat, lat): ORDER BY dist_sq LIMIT 5
stmtNearest(rows, lng, lat, tie) ==
    LET n == Len(rows)
        rank(i) == Cardinality({j \in 1..n : Precedes(rows, j, i, lng, lat, tie)})
        m == IF n < NEAREST_LIMIT THEN n ELSE NEAREST_LIMIT
    IN  [k \in 1..m |-> rows[CHOOSE i \in 1..n : rank(i) = k - 1]]

\* ------------------------------------------------------------------------
\* Geometry
\* ------------------------------------------------------------------------
\* JSON.parse(candidate.geometry) and polygon() / multiPolygon() return
\* without throwing
Decodes(row) == row.geometry.ok

booleanPointInPolygon(lng, lat, geometry) ==
    /\ IsFinite(lng) /\ IsFinite(lat)
    /\ <<lng.v, lat.v>> \in geometry.cells

MinOf(S) == CHOOSE d \in S : \A e \in S : d <= e

\* Math.round(pointToPolygonDistance(pt, feature)): the squared grid
\* distance to the closest point of the geometry stands for the metres; the
\* distance from a point with an infinite coordinate is not a finite number
pointToPolygonDistance(lng, lat, geometry) ==
    IF IsFinite(lng) /\ IsFinite(lat)
    THEN Num(MinOf({ (c[1] - lng.v) * (c[1] - lng.v) + (c[2] - lat.v) * (c[2] - lat.v) :
                     c \in geometry.cells }))
    ELSE NaN

\* ------------------------------------------------------------------------
\* lookupDistrict of the SQLite service
\* ------------------------------------------------------------------------
\* A LookupResult or an error body; an absent or null field is None
Result(status, id, name, approx, distance, error, coordinates) ==
    [status |-> status, districtId |-> id, districtName |-> name,
     isApproximate |-> approx, approximateDistance |-> distance,
     error |-> error, coordinates |-> coordinates]

ExactResult(c, lat, lng) ==
    Result(TRUE, Some(c.districtId), Some(c.districtName), None, None, None,
           Some(<<lat, lng>>))

ApproximateResult(c, lat, lng) ==
    Result(TRUE, Some(c.districtId), Some(c.districtName), Some(TRUE),
           Some(pointToPolygonDistance(lng, lat, c.geometry)), None, Some(<<lat, lng>>))

NotFound == Result(FALSE, None, None, None, None, None, None)

InternalLookupError ==
    Result(FALSE, None, None, None, None, Some("Internal lookup error"), None)

\* The probes that can throw in one call
Faults == {"none", "bbox", "nearest"}

\* a containment loop that a decode error ends: no candidate behind an
\* undecodable one is tested
ContainmentLoop_Abort(candidates, lng, lat) ==
    LET hits == {i \in 1..Len(candidates) :
                    /\ \A j \in 1..i : Decodes(candidates[j])
                    /\ booleanPointInPolygon(lng, lat, candidates[i].geometry)}
    IN  IF hits = {} THEN 0 ELSE MinOf(hits)

\* a containment loop that goes on after a hit and keeps the last one
ContainmentLoop_Last(candidates, lng, lat) ==
    LET hits == {i \in 1..Len(candidates) :
                    /\ Decodes(candidates[i])
                    /\ booleanPointInPolygon(lng, lat, candidates[i].geometry)}
    IN  IF hits = {} THEN 0 ELSE CHOOSE i \in hits : \A j \in hits : j <= i

\* Index of the first candidate the containment loop returns for, 0 if none:
\* a candidate whose geometry does not decode is caught and skipped
ContainmentLoop(candidates, lng, lat) ==
    LET hits == {i \in 1..Len(candidates) :
                    /\ Decodes(candidates[i])
                    /\ booleanPointInPolygon(lng, lat, candidates[i].geometry)}
    IN  IF hits = {} THEN 0 ELSE MinOf(hits)

\* a nearest loop that gives up when the first row does not decode
NearestLoop_FirstOnly(nearest) ==
    IF nearest # <<>> /\ Decodes(nearest[1]) THEN 1 ELSE 0

\* Index of the first row of the nearest list the second loop returns for,
\* 0 if none
NearestLoop(nearest) ==
    LET ok == {i \in 1..Len(nearest) : Decodes(nearest[i])}
    IN  IF ok = {} THEN 0 ELSE MinOf(ok)

\* a lookup that runs the nearest probe before it looks at the candidates
lookupDistrict_Eager(rows, tie, lat, lng, fault) ==
    IF fault = "bbox"
    THEN [result |-> InternalLookupError, probes |-> <<"bbox">>, decoded |-> <<>>]
    ELSE
    LET candidates == stmtBbox(rows, lng, lat)
        hit == ContainmentLoop(candidates, lng, lat)
        ids(seq, n) == [i \in 1..n |-> seq[i].districtId]
    IN  IF fault = "nearest"
        THEN [result |-> InternalLookupError, probes |-> <<"bbox", "nearest">>,
              decoded |-> <<>>]
        ELSE
        LET nearest == stmtNearest(rows, lng, lat, tie)
            first == NearestLoop(nearest)
        IN  IF hit # 0
            THEN [result |-> ExactResult(candidates[hit], lat, lng),
                  probes |-> <<"bbox", "nearest">>,
                  decoded |-> ids(candidates, hit)]
            ELSE [result |-> IF first # 0
                             THEN ApproximateResult(nearest[first], lat, lng)
                             ELSE NotFound,
                  probes |-> <<"bbox", "nearest">>,
                  decoded |-> ids(candidates, Len(candidates))
                              \o ids(nearest, IF first # 0 THEN first ELSE Len(nearest))]

\* lookupDistrict(lat, lng): the result, the probes executed and the ids of
\* the rows whose geometry was decoded, in order
lookupDistrict(rows, tie, lat, lng, fault) ==
    IF fault = "bbox"
    THEN [result |-> InternalLookupError, probes |-> <<"bbox">>, decoded |-> <<>>]
    ELSE
    LET candidates == stmtBbox(rows, lng, lat)
        hit == ContainmentLoop(candidates, lng, lat)
        ids(seq, n) == [i \in 1..n |-> seq[i].districtId]
    IN  IF hit # 0
        THEN [result |-> ExactResult(candidates[hit], lat, lng),
              probes |-> <<"bbox">>,
              decoded |-> ids(candidates, hit)]
        ELSE IF fault = "nearest"
        THEN [result |-> InternalLookupError, probes |-> <<"bbox", "nearest">>,
              decoded |-> ids(candidates, Len(candidates))]
        ELSE
        LET nearest == stmtNearest(rows, lng, lat, tie)
            first == NearestLoop(nearest)
        IN  [result |-> IF first # 0
                        THEN ApproximateResult(nearest[first], lat, lng)
                        ELSE NotFound,
             probes |-> <<"bbox", "nearest">>,
             decoded |-> ids(candidates, Len(candidates))
                         \o ids(nearest, IF first # 0 THEN first ELSE Len(nearest))]

\* ------------------------------------------------------------------------
\* JSON values of a request body
\* ------------------------------------------------------------------------
\* a number (1e999 parses to Infinity), a string, null, or a missing property
JNumber(x) == [j |-> "number", v |-> x]

JString == [j |-> "string", v |-> NaN]

JNull == [j |-> "null", v |-> NaN]

JUndefined == [j |-> "undefined", v |-> NaN]

typeof(x) == IF x.j = "null" THEN "object" ELSE x.j

\* ------------------------------------------------------------------------
\* State
\* ------------------------------------------------------------------------
VARIABLES
    db,      \* SQLite service: the rows of districts.db, in scan order
    tie,     \* SQLite service: how the sorter of stmtNearest orders equal dist_sq
    req,     \* SQLite service: the request on its way, NoRequest once handled
    last,    \* SQLite service: the request handled and its response
    records,            \* R-tree service: the records of the shapefile
    geometryCacheSize,  \* R-tree service: config.cache.geometryCacheSize
    geometryCache,      \* R-tree service: the geometry cache, least recently used first
    queries,            \* R-tree service: the requests and how far each has come
    maxSize,  \* LRUCache: the capacity given to the constructor
    cache,    \* LRUCache: the entries of the Map, in insertion order
    ret,      \* LRUCache: the last call, the entries before it and what it returned
    service,         \* process: which server runs, "sqlite" or "rtree"
    storeFile,       \* process: the store on disk (districts.db, or the shapefile)
    stage,           \* process: how far the start of the server has come
    handle,          \* process, SQLite: the connection db to the store
    spatialIndex,    \* process, R-tree: the variable spatialIndex
    server,          \* process: the variable server and whether it listens
    sockets,         \* process: the sockets of the server and the request on each
    connections,     \* process, R-tree: the Set connections
    isShuttingDown,  \* process, R-tree: the flag isShuttingDown
    timers,          \* process, R-tree: the timeouts armed by shutdown
    closeListeners,  \* process: the callbacks given to server.close and not yet called
    signals,         \* process: the calls of shutdown so far
    exitCode,        \* process: the argument of process.exit, None while running
    source,    \* build: the records of the shapefile, in reading order
    buildFault,\* build: the step of createDatabase that fails, "none" if none does
    dbFile,    \* build: the file at DB_PATH, None when there is none
    buildRows,    \* build: the array rows
    buildCount,   \* build: the counter count
    buildSkipped, \* build: the counter skipped
    buildRead,    \* build: the records read so far
    build,     \* build: how far createDatabase has come
    grade,       \* grades: the grade code read from the store, None for null
    gradeShown,  \* grades: what each service shows for it, None before the call
    maxRetries,  \* download: the parameter maxRetries
    attempt,     \* download: the loop variable attempt
    step,        \* download: the await the call is at, or how it has ended
    dest,        \* download: the file at dest
    stream,      \* download: the write stream made last, "none" before the first
    fetches,     \* download: the calls of fetch so far
    failures,    \* download: the attempts that have failed so far
    delays       \* download: the backoff delays waited so far, in milliseconds

sqliteVars == <<db, tie, req, last>>

rtreeVars == <<records, geometryCacheSize, geometryCache, queries>>

lruVars == <<maxSize, cache, ret>>

lifeVars ==
    <<service, storeFile, stage, handle, spatialIndex, server, sockets, connections,
      isShuttingDown, timers, closeListeners, signals, exitCode>>

buildVars == <<source, buildFault, dbFile, buildRows, buildCount, buildSkipped, buildRead, build>>

gradeVars == <<grade, gradeShown>>

downloadVars == <<maxRetries, attempt, step, dest, stream, fetches, failures, delays>>

vars ==
    <<db, tie, req, last, records, geometryCacheSize, geometryCache, queries, maxSize, cache, ret,
      lifeVars, buildVars, gradeVars, downloadVars>>

\* One coordinate of a request: what was sent, what the handler made of it,
\* its result, the probes run for it and the rows decoded for it
Item(latIn, lngIn, lat, lng, fault, body, probes, decoded) ==
    [latIn |-> latIn, lngIn |-> lngIn, lat |-> lat, lng |-> lng, fault |-> fault,
     body |-> body, probes |-> probes, decoded |-> decoded]

\* An item rejected before any lookup
Rejected(latIn, lngIn, lat, lng, error) ==
    Item(latIn, lngIn, lat, lng, "none",
         Result(FALSE, None, None, None, None, Some(error), None), <<>>, <<>>)

\* An item answered by lookupDistrict
Looked(latIn, lngIn, lat, lng, fault) ==
    LET r == lookupDistrict(db, tie, lat, lng, fault)
    IN  Item(latIn, lngIn, lat, lng, fault, r.result, r.probes, r.decoded)

\* A request: the route, whether the batch body holds an array, and per
\* coordinate the lat and lng sent and the probe that will throw for it
Request(entry, isArray, lats, lngs, faults) ==
    [entry |-> entry, isArray |-> isArray, lats |-> lats, lngs |-> lngs, faults |-> faults]

NoRequest == Request("none", FALSE, <<>>, <<>>, <<>>)

Response(entry, code, error, items) ==
    [entry |-> entry, code |-> code, error |-> error, items |-> items]

NoResponse == Response("none", 0, None, <<>>)

\* The parts of the state a specification does not exercise
SqliteOff == db = <<>> /\ tie = "scan" /\ req = NoRequest /\ last = NoResponse

RtreeOff ==
    records = <<>> /\ geometryCacheSize = 0 /\ geometryCache = <<>> /\ queries = <<>>

NoCall == [op |-> "none", key |-> 0, value |-> None, before |-> <<>>]

LruOff == maxSize = 0 /\ cache = <<>> /\ ret = NoCall

LifeOff ==
    /\ service = "none" /\ storeFile = "ok" /\ stage = "start" /\ handle = "none"
    /\ spatialIndex = "null" /\ server = "undefined" /\ sockets = <<>>
    /\ connections = {} /\ isShuttingDown = FALSE /\ timers = {}
    /\ closeListeners = 0 /\ signals = 0 /\ exitCode = None

BuildOff ==
    /\ source = <<>> /\ buildFault = "none" /\ dbFile = None /\ buildRows = <<>>
    /\ buildCount = 0 /\ buildSkipped = 0 /\ buildRead = 0 /\ build = "idle"

GradeOff == grade = None /\ gradeShown = None

DownloadOff ==
    /\ maxRetries = 0 /\ attempt = 0 /\ step = "off" /\ dest = "absent"
    /\ stream = "none" /\ fetches = 0 /\ failures = 0 /\ delays = <<>>

ProcessOff == LifeOff /\ BuildOff /\ GradeOff /\ DownloadOff

\* ------------------------------------------------------------------------
\* Routes of the SQLite service
\* ------------------------------------------------------------------------
\* GET /school-district?lat=..&lng=..
GetSchoolDistrict ==
    /\ req.entry = "GET"
    /\ LET latIn == req.lats[1]
           lngIn == req.lngs[1]
           lat == parseFloat(latIn)
           lng == parseFloat(lngIn)
       IN  last' = IF isNaN(lat) \/ isNaN(lng)
                   THEN Response("GET", 400, None,
                                 <<Rejected(latIn, lngIn, lat, lng, "Invalid coordinates")>>)
                   ELSE Response("GET", 200, None,
                                 <<Looked(latIn, lngIn, lat, lng, req.faults[1])>>)
    /\ req' = NoRequest
    /\ UNCHANGED <<db, tie, rtreeVars, lruVars, lifeVars, buildVars, gradeVars, downloadVars>>

\* What express.json() leaves in req.body for a request that has no body:
\* an empty object (Express 4) or undefined (Express 5)
MissingBody == {"empty", "undefined"}

\* POST /lookup with body {lat, lng}; a request with no body has no lats.
\* Destructuring an undefined body throws, and the error handler answers.
PostLookup ==
    /\ req.entry = "POST"
    /\ \E body \in MissingBody :
          LET latIn == IF req.lats = <<>> THEN JUndefined ELSE req.lats[1]
              lngIn == IF req.lngs = <<>> THEN JUndefined ELSE req.lngs[1]
          IN  last' = IF req.lats = <<>> /\ body = "undefined"
                      THEN Response("POST", 500, Some("Something went wrong"), <<>>)
                      ELSE IF typeof(latIn) # "number" \/ typeof(lngIn) # "number"
                      THEN Response("POST", 400, None,
                                    <<Rejected(latIn, lngIn, latIn.v, lngIn.v,
                                               "Invalid coordinates")>>)
                      ELSE Response("POST", 200, None,
                                    <<Looked(latIn, lngIn, latIn.v, lngIn.v, req.faults[1])>>)
    /\ req' = NoRequest
    /\ UNCHANGED <<db, tie, rtreeVars, lruVars, lifeVars, buildVars, gradeVars, downloadVars>>

BATCH_MAX == 100

\* a length check that also turns away a batch of exactly the maximum
TooLong_Inclusive(coordinates) == Len(coordinates) >= BATCH_MAX

\* coordinates.length > 100
TooLong(coordinates) == Len(coordinates) > BATCH_MAX

\* POST /school-districts/batch with body {coordinates}
BatchLookup ==
    /\ req.entry = "BATCH"
    /\ last' =
         IF ~req.isArray
         THEN Response("BATCH", 400, Some("coordinates must be an array"), <<>>)
         ELSE IF TooLong(req.lats)
         THEN Response("BATCH", 400, Some("Maximum 100 coordinates per batch"), <<>>)
         ELSE Response("BATCH", 200, None,
                  [i \in 1..Len(req.lats) |->
                      LET latIn == req.lats[i]
                          lngIn == req.lngs[i]
                      IN  IF typeof(latIn) = "number" /\ typeof(lngIn) = "number"
                          THEN Looked(latIn, lngIn, latIn.v, lngIn.v, req.faults[i])
                          ELSE Rejected(latIn, lngIn, latIn.v, lngIn.v, "Invalid coordinate")])
    /\ req' = NoRequest
    /\ UNCHANGED <<db, tie, rtreeVars, lruVars, lifeVars, buildVars, gradeVars, downloadVars>>

\* ------------------------------------------------------------------------
\* Requests
\* ------------------------------------------------------------------------
LatTexts ==
    {TxtInt(n) : n \in LatGrid}
        \cup {TxtInt(0), TxtIntJunk(MidLat), TxtInf(1), TxtWord, TxtEmpty, TxtAbsent}

LngTexts == {TxtInt(n) : n \in LngGrid} \cup {TxtInt(0), TxtInf(-1), TxtWord}

LatJson ==
    {JNumber(Num(n)) : n \in LatGrid}
        \cup {JNumber(Num(0)), JNumber(PosInf), JString, JNull, JUndefined}

LngJson == {JNumber(Num(n)) : n \in LngGrid} \cup {JNumber(Num(0)), JNumber(NegInf), JString}

BatchLatJson == {JNumber(Num(LAT_MIN - 1)), JNumber(Num(MidLat)), JString}

BatchLngJson == {JNumber(Num(MidLng))}

BatchFaults == {"none", "bbox"}

GetRequests ==
    {Request("GET", FALSE, <<a>>, <<b>>, <<f>>) : a \in LatTexts, b \in LngTexts, f \in Faults}

PostRequests ==
    {Request("POST", FALSE, <<a>>, <<b>>, <<f>>) : a \in LatJson, b \in LngJson, f \in Faults}
        \cup {Request("POST", FALSE, <<>>, <<>>, <<>>)}

\* One coordinate repeated n times
Filled(n, a, b) ==
    Request("BATCH", TRUE, [i \in 1..n |-> a], [i \in 1..n |-> b], [i \in 1..n |-> "none"])

\* The batches sent: a body without an array, the arrays of at most MaxBatch
\* coordinates, and arrays of the longest accepted length and of one more
BatchRequests ==
    {Request("BATCH", FALSE, <<>>, <<>>, <<>>)}
        \cup UNION { {Request("BATCH", TRUE, a, b, f) :
                        a \in [1..n -> BatchLatJson], b \in [1..n -> BatchLngJson],
                        f \in [1..n -> BatchFaults]} : n \in 0..MaxBatch }
        \cup {Filled(n, a, b) : n \in {BATCH_MAX, BATCH_MAX + 1},
                                a \in BatchLatJson, b \in BatchLngJson}

\* ------------------------------------------------------------------------
\* The SQLite service answering one request
\* ------------------------------------------------------------------------
Init ==
    /\ db \in Stores(MaxRouteRows)
    /\ tie \in {"scan", "reverse"}
    /\ req \in GetRequests \cup PostRequests \cup BatchRequests
    /\ last = NoResponse
    /\ RtreeOff /\ LruOff /\ ProcessOff

Next == GetSchoolDistrict \/ PostLookup \/ BatchLookup

Spec == Init /\ [][Next]_vars

\* ------------------------------------------------------------------------
\* lookupDistrict called on the points of the accepted range, over larger
\* stores
\* ------------------------------------------------------------------------
InRangeLat == {LAT_MIN, MidLat, LAT_MAX}

InRangeLng == {LNG_MIN, MidLng, LNG_MAX}

LookupRequests ==
    {Request("POST", FALSE, <<JNumber(Num(a))>>, <<JNumber(Num(b))>>, <<f>>) :
        a \in InRangeLat, b \in InRangeLng, f \in Faults}

InitLookup ==
    /\ db \in Stores(MaxDistricts)
    /\ tie \in {"scan", "reverse"}
    /\ req \in LookupRequests
    /\ last = NoResponse
    /\ RtreeOff /\ LruOff /\ ProcessOff

SpecLookup == InitLookup /\ [][PostLookup]_vars

\* ------------------------------------------------------------------------
\* Claims about lookupDistrict
\* ------------------------------------------------------------------------
\* The rows of the store whose polygon contains the point
Containing(lng, lat) ==
    {i \in 1..Len(db) : Decodes(db[i]) /\ booleanPointInPolygon(lng, lat, db[i].geometry)}

IsExact(body) ==
    body.status /\ body.districtId # None /\ body.isApproximate = None
        /\ body.approximateDistance = None

IsApproximate(body) ==
    body.status /\ body.districtId # None /\ body.isApproximate = Some(TRUE)
        /\ body.approximateDistance # None

\* status false with null districtId and districtName, and no error
IsNotFound(body) ==
    ~body.status /\ body.districtId = None /\ body.districtName = None /\ body.error = None

\* The items of the handled request for which lookupDistrict ran
LookedItems == {i \in 1..Len(last.items) : last.items[i].probes # <<>>}

\* C1: when the point of a lookup lies inside the polygon of a stored
\* district and the bounding-box probe returns, the result is Exact (status
\* true, no approximate flag, no distance) and names a district whose polygon
\* contains the point.
C1_ExactWhenInside ==
    \A i \in LookedItems :
        LET it == last.items[i]
        IN  (it.fault # "bbox" /\ Containing(it.lng, it.lat) # {})
                => /\ IsExact(it.body)
                   /\ it.body.districtId[1] \in Containing(it.lng, it.lat)

\* a lookup of a point inside two overlapping districts, behind an
\* undecodable row whose box covers it, has returned one of the two
C1_Witness ==
    \E i \in LookedItems :
        LET it == last.items[i]
        IN  /\ it.fault # "bbox"
            /\ Cardinality(Containing(it.lng, it.lat)) >= 2
            /\ it.decoded # <<>> /\ ~Decodes(db[it.decoded[1]])
            /\ IsExact(it.body)

\* The row of the store with primary key id
RowOf(id) == db[CHOOSE i \in 1..Len(db) : db[i].districtId = id]

\* The rows of a list that decode, in the order of the list
Decodable(rows) == SelectSeq(rows, Decodes)

\* lookups whose two probes both return
Completed == {i \in LookedItems : last.items[i].fault = "none"}

\* C2 (as claimed): when no polygon contains the point and the store is not
\* empty, a lookup whose probes return gives Approximate for the first row
\* of the nearest-by-centroid list, the stored district with the smallest
\* squared centroid distance.
C2_Original ==
    \A i \in Completed :
        LET it == last.items[i]
        IN  (Containing(it.lng, it.lat) = {} /\ Len(db) > 0)
                => /\ IsApproximate(it.body)
                   /\ it.body.districtId[1] = stmtNearest(db, it.lng, it.lat, tie)[1].districtId
                   /\ \A j \in 1..Len(db) :
                        NumLE(dist_sq(RowOf(it.body.districtId[1]), it.lng, it.lat),
                              dist_sq(db[j], it.lng, it.lat))

\* C2 (amended): when no polygon contains the point, a lookup whose probes
\* return gives Approximate, with the distance to its polygon, for the first
\* row of the nearest-by-centroid list whose geometry decodes; no decodable
\* stored district has a smaller squared centroid distance.  When none of
\* the at most five rows of that list decodes the result is NotFound.
C2_NearestDecodable ==
    \A i \in Completed :
        LET it == last.items[i]
            good == Decodable(stmtNearest(db, it.lng, it.lat, tie))
        IN  Containing(it.lng, it.lat) = {}
                => IF good = <<>>
                   THEN IsNotFound(it.body)
                   ELSE /\ IsApproximate(it.body)
                        /\ it.body.districtId[1] = good[1].districtId
                        /\ it.body.approximateDistance
                             = Some(pointToPolygonDistance(it.lng, it.lat, good[1].geometry))
                        /\ \A j \in 1..Len(db) :
                             Decodes(db[j])
                                => NumLE(dist_sq(good[1], it.lng, it.lat),
                                         dist_sq(db[j], it.lng, it.lat))

\* an Approximate result for a row that is not the first of the nearest
\* list, in a store where a farther decodable row exists as well
C2_Witness ==
    \E i \in Completed :
        LET it == last.items[i]
            nearest == stmtNearest(db, it.lng, it.lat, tie)
        IN  /\ Containing(it.lng, it.lat) = {}
            /\ IsApproximate(it.body)
            /\ it.body.districtId[1] # nearest[1].districtId
            /\ \E j \in 1..Len(db) :
                 /\ Decodes(db[j])
                 /\ NumLT(dist_sq(RowOf(it.body.districtId[1]), it.lng, it.lat),
                          dist_sq(db[j], it.lng, it.lat))

\* C5 (as claimed): a lookup whose probes return gives NotFound only when
\* the store holds no district.
C5_Original ==
    \A i \in Completed : IsNotFound(last.items[i].body) => Len(db) = 0

\* C5 (amended): a lookup whose probes return gives NotFound exactly when no
\* stored polygon contains the point and none of the at most five rows
\* nearest by centroid decodes, the empty store included; in every other
\* case it gives Exact or Approximate.
C5_NotFoundOnlyWithoutDecodable ==
    \A i \in Completed :
        LET it == last.items[i]
            good == Decodable(stmtNearest(db, it.lng, it.lat, tie))
        IN  /\ IsNotFound(it.body) <=> (Containing(it.lng, it.lat) = {} /\ good = <<>>)
            /\ ~IsNotFound(it.body) => (IsExact(it.body) \/ IsApproximate(it.body))
            /\ Len(db) = 0 => IsNotFound(it.body)

\* NotFound from a store that holds a decodable district beyond the five
\* nearest rows
C5_Witness ==
    \E i \in Completed :
        /\ IsNotFound(last.items[i].body)
        /\ Len(db) > NEAREST_LIMIT
        /\ \E j \in 1..Len(db) : Decodes(db[j])

\* The result of the two loops over lists that hold no undecodable row
ResultOver(candidates, nearest, lat, lng) ==
    LET hits == {k \in 1..Len(candidates) :
                    booleanPointInPolygon(lng, lat, candidates[k].geometry)}
    IN  IF hits # {} THEN ExactResult(candidates[MinOf(hits)], lat, lng)
        ELSE IF nearest # <<>> THEN ApproximateResult(nearest[1], lat, lng)
        ELSE NotFound

\* C6: undecodable candidates, in the containment loop or in the nearest
\* loop, are skipped one by one: a lookup whose probes return is not aborted
\* and gives the result of the same lists with the undecodable rows removed.
C6_BadCandidateSkipped ==
    \A i \in Completed :
        LET it == last.items[i]
        IN  it.body = ResultOver(Decodable(stmtBbox(db, it.lng, it.lat)),
                                 Decodable(stmtNearest(db, it.lng, it.lat, tie)),
                                 it.lat, it.lng)

\* an undecodable candidate was met in the containment loop and another in
\* the nearest loop, and a row behind them was returned
C6_Witness ==
    \E i \in Completed :
        LET it == last.items[i]
            candidates == stmtBbox(db, it.lng, it.lat)
            nearest == stmtNearest(db, it.lng, it.lat, tie)
        IN  /\ candidates # <<>> /\ ~Decodes(candidates[1])
            /\ ~Decodes(nearest[1])
            /\ IsApproximate(it.body)

\* ------------------------------------------------------------------------
\* LRUCache
\* ------------------------------------------------------------------------
\* The Map of an LRUCache is the sequence of its entries in insertion order:
\* the first entry is the one keys().next() yields.
Entry(key, value) == [key |-> key, value |-> value]

MapHas(m, key) == \E i \in 1..Len(m) : m[i].key = key

MapGet(m, key) == m[CHOOSE i \in 1..Len(m) : m[i].key = key].value

MapDelete(m, key) == SelectSeq(m, LAMBDA e : e.key # key)

\* Map.set: a key that is present keeps its place, a new key goes last
MapSet(m, key, value) ==
    IF MapHas(m, key)
    THEN [i \in 1..Len(m) |-> IF m[i].key = key THEN Entry(key, value) ELSE m[i]]
    ELSE Append(m, Entry(key, value))

\* a get that does not look at the key: the value of the first entry
LRUGet_AnyKey(m, key) ==
    IF m = <<>> THEN [cache |-> m, value |-> None]
    ELSE [cache |-> m, value |-> Some(m[1].value)]

\* a get that returns the value without moving the key
LRUGet_NoTouch(m, key) ==
    IF ~MapHas(m, key)
    THEN [cache |-> m, value |-> None]
    ELSE [cache |-> m, value |-> Some(MapGet(m, key))]

\* get(key): the entries after the call and the value returned (None for
\* undefined)
LRUGet(m, key) ==
    IF ~MapHas(m, key)
    THEN [cache |-> m, value |-> None]
    ELSE LET value == MapGet(m, key)
         IN  [cache |-> MapSet(MapDelete(m, key), key, value), value |-> Some(value)]

\* a set that makes room before it looks for the key
LRUSet_EvictAlways(m, max, key, value) ==
    LET room == IF Len(m) >= max /\ m # <<>> THEN MapDelete(m, m[1].key) ELSE m
    IN  MapSet(MapDelete(room, key), key, value)

\* a set that makes room by removing the newest entry
LRUSet_EvictNewest(m, max, key, value) ==
    LET kept == IF MapHas(m, key) THEN MapDelete(m, key)
                ELSE IF Len(m) >= max /\ m # <<>> THEN SubSeq(m, 1, Len(m) - 1)
                ELSE m
    IN  MapSet(kept, key, value)

\* set(key, value): the entries after the call
LRUSet(m, max, key, value) ==
    LET kept == IF MapHas(m, key) THEN MapDelete(m, key)
                ELSE IF Len(m) >= max
                THEN (IF m # <<>> THEN MapDelete(m, m[1].key) ELSE m)
                ELSE m
    IN  MapSet(kept, key, value)

LRUHas(m, key) == MapHas(m, key)

LRUSize(m) == Len(m)

LRUClear(m) == <<>>

\* ------------------------------------------------------------------------
\* An LRUCache under arbitrary calls
\* ------------------------------------------------------------------------
Keys == 1..(MaxCapacity + 1)

Values == 1..MaxValues

Call(op, key, value, before) == [op |-> op, key |-> key, value |-> value, before |-> before]

CacheGet ==
    \E key \in Keys :
        LET r == LRUGet(cache, key)
        IN  /\ cache' = r.cache
            /\ ret' = Call("get", key, r.value, cache)
            /\ UNCHANGED <<maxSize, sqliteVars, rtreeVars, lifeVars, buildVars, gradeVars, downloadVars>>

CacheSet ==
    \E key \in Keys, value \in Values :
        /\ cache' = LRUSet(cache, maxSize, key, value)
        /\ ret' = Call("set", key, Some(value), cache)
        /\ UNCHANGED <<maxSize, sqliteVars, rtreeVars, lifeVars, buildVars, gradeVars, downloadVars>>

CacheHas ==
    \E key \in Keys :
        /\ ret' = Call("has", key, Some(LRUHas(cache, key)), cache)
        /\ UNCHANGED <<cache, maxSize, sqliteVars, rtreeVars, lifeVars, buildVars, gradeVars, downloadVars>>

CacheSizeCall ==
    /\ ret' = Call("size", 0, Some(LRUSize(cache)), cache)
    /\ UNCHANGED <<cache, maxSize, sqliteVars, rtreeVars, lifeVars, buildVars, gradeVars, downloadVars>>

CacheClear ==
    /\ cache' = LRUClear(cache)
    /\ ret' = Call("clear", 0, None, cache)
    /\ UNCHANGED <<maxSize, sqliteVars, rtreeVars, lifeVars, buildVars, gradeVars, downloadVars>>

\* new LRUCache(maxSize); GEOMETRY_CACHE_SIZE may be 0
InitLRU ==
    /\ maxSize \in 0..MaxCapacity
    /\ cache = <<>>
    /\ ret = NoCall
    /\ SqliteOff /\ RtreeOff /\ ProcessOff

NextLRU == CacheGet \/ CacheSet \/ CacheHas \/ CacheSizeCall \/ CacheClear

SpecLRU == InitLRU /\ [][NextLRU]_vars

\* C9 (as claimed): after any sequence of get, set, has and clear the size
\* of an LRUCache does not exceed its capacity.
C9_SizeWithinCapacity == LRUSize(cache) <= maxSize

CacheKeys(m) == {m[i].key : i \in 1..Len(m)}

\* C10 (as claimed): set(k, v) of a key that is not present, on a cache whose
\* size equals its capacity, removes exactly the least recently used key,
\* inserts k, keeps the value of every other key and leaves the size equal
\* to the capacity.
C10_EvictsLeastRecentlyUsed ==
    (ret.op = "set" /\ ~MapHas(ret.before, ret.key) /\ Len(ret.before) = maxSize)
        => /\ Len(ret.before) > 0
           /\ CacheKeys(cache) = (CacheKeys(ret.before) \ {ret.before[1].key}) \cup {ret.key}
           /\ MapGet(cache, ret.key) = ret.value[1]
           /\ \A k \in CacheKeys(ret.before) \ {ret.before[1].key} :
                MapGet(cache, k) = MapGet(ret.before, k)
           /\ LRUSize(cache) = maxSize

\* ------------------------------------------------------------------------
\* The shapefile and the spatial index of the R-tree service
\* ------------------------------------------------------------------------
\* A record of the shapefile: its GEOID (None when absent), the type of its
\* geometry, the grid points the geometry contains, and those of them that
\* lie in details finer than the simplification tolerance.
Feature(geoid, type, cells, fine) ==
    [GEOID |-> geoid, type |-> type, cells |-> cells, fine |-> fine]

\* simplify(geom, {tolerance}): details finer than the tolerance are lost
simplify(feature) == feature.cells \ feature.fine

\* The shapefiles of at most n records.  The GEOID of a record, where it has
\* one, is unique: it is the number of the record.
FeatureKinds == {"west", "wide", "anon", "point"}

FeatureOf(kind, i) ==
    CASE kind = "west" ->
            Feature(Some(i), "Polygon", {<<LNG_MIN, LAT_MIN>>, <<MidLng, MidLat>>}, {})
      [] kind = "wide" ->
            Feature(Some(i), "MultiPolygon",
                    {<<LNG_MAX, LAT_MAX>>, <<LNG_MIN, LAT_MIN>>, <<LNG_MIN, LAT_MAX>>},
                    {<<LNG_MIN, LAT_MAX>>})
      [] kind = "anon" ->
            Feature(None, "Polygon", {<<MidLng, MidLat>>, <<LNG_MAX, LAT_MAX>>}, {})
      [] OTHER -> Feature(None, "Point", {<<MidLng, MidLat>>}, {})

Shapefiles(n) ==
    UNION { { [i \in 1..len |-> FeatureOf(f[i], i)] : f \in [1..len -> FeatureKinds] } :
            len \in 0..n }

MaxOf(S) == CHOOSE d \in S : \A e \in S : d >= e

\* buildSpatialIndex: one item per record with a Polygon or MultiPolygon,
\* holding the envelope of the geometry, the GEOID and the 0-based position
\* of the record among all records
\* an index whose recordIndex counts the indexed records only
buildSpatialIndex_CountIndexed(recs) ==
    LET polygonal == SelectSeq([i \in 1..Len(recs) |-> i],
                               LAMBDA i : recs[i].type \in {"Polygon", "MultiPolygon"})
    IN  [k \in 1..Len(polygonal) |->
            LET feat == recs[polygonal[k]]
            IN  [minX |-> MinOf({c[1] : c \in feat.cells}),
                 minY |-> MinOf({c[2] : c \in feat.cells}),
                 maxX |-> MaxOf({c[1] : c \in feat.cells}),
                 maxY |-> MaxOf({c[2] : c \in feat.cells}),
                 metadata |-> [districtId |-> feat.GEOID, name |-> feat.GEOID,
                               recordIndex |-> k - 1]]]

buildSpatialIndex(recs) ==
    LET polygonal == SelectSeq([i \in 1..Len(recs) |-> i],
                               LAMBDA i : recs[i].type \in {"Polygon", "MultiPolygon"})
    IN  [k \in 1..Len(polygonal) |->
            LET feat == recs[polygonal[k]]
            IN  [minX |-> MinOf({c[1] : c \in feat.cells}),
                 minY |-> MinOf({c[2] : c \in feat.cells}),
                 maxX |-> MaxOf({c[1] : c \in feat.cells}),
                 maxY |-> MaxOf({c[2] : c \in feat.cells}),
                 metadata |-> [districtId |-> feat.GEOID, name |-> feat.GEOID,
                               recordIndex |-> polygonal[k] - 1]]]

\* spatialIndex.search of the point
search(index, lng, lat) ==
    SelectSeq(index, LAMBDA it :
        /\ it.minX <= lng /\ lng <= it.maxX
        /\ it.minY <= lat /\ lat <= it.maxY)

\* The reads of loadDistrictGeometry: the record that the loop stops at, None
\* when the file ends first
RECURSIVE ReadLoop(_, _, _)
ReadLoop(recs, currentIndex, recordIndex) ==
    IF currentIndex >= Len(recs) THEN None
    ELSE IF currentIndex < recordIndex THEN ReadLoop(recs, currentIndex + 1, recordIndex)
    ELSE Some(recs[currentIndex + 1])

\* ------------------------------------------------------------------------
\* Lookups of the R-tree service
\* ------------------------------------------------------------------------
\* a || b of JavaScript on JSON values
Falsy(x) ==
    \/ x.j \in {"null", "undefined"}
    \/ x.j = "number" /\ (x.v = Num(0) \/ isNaN(x.v))

JsOr(a, b) == IF Falsy(a) THEN b ELSE a

\* Number(x) of a JSON value; the strings sent are not numeric
NumberOfJson(x) ==
    CASE x.j = "number" -> x.v
      [] x.j = "null" -> Num(0)
      [] OTHER -> NaN

\* A request in progress.  pc is "new" before the handler has run, "loading"
\* while loadDistrictGeometry awaits the shapefile for candidates[i], "have"
\* when it has returned geometry (None for null) and lookupSchoolDistrict has
\* not resumed yet, "done" once the response is sent, "raised" when the
\* lookup has thrown to the route handler.  fromCache tells whether the
\* geometry of candidates[i] came from the cache.
Query(request, pc, lat, lng, candidates, i, geometry, fromCache, code, body) ==
    [req |-> request, pc |-> pc, lat |-> lat, lng |-> lng, candidates |-> candidates,
     i |-> i, geometry |-> geometry, fromCache |-> fromCache, code |-> code, body |-> body]

NewQuery(request) == Query(request, "new", NaN, NaN, <<>>, 0, None, FALSE, 0, NotFound)

ErrorBody(error) == Result(FALSE, None, None, None, None, Some(error), None)

\* The validation of the three routes: the error of a rejected coordinate,
\* None for an accepted one
ValidationError(lat, lng) ==
    IF isNaN(lat) \/ isNaN(lng)
    THEN Some("Invalid coordinates: lat and lng must be numbers")
    ELSE IF NumLT(lat, Num(LAT_MIN)) \/ NumLT(Num(LAT_MAX), lat)
    THEN Some("Latitude out of bounds for US territories (18 to 72)")
    ELSE IF NumLT(lng, Num(LNG_MIN)) \/ NumLT(Num(LNG_MAX), lng)
    THEN Some("Longitude out of bounds for US territories (-180 to -65)")
    ELSE None

\* The result lookupSchoolDistrict returns for candidate c
FoundResult(c, lat, lng) ==
    Result(TRUE, c.metadata.districtId, c.metadata.name, None, None, None,
           Some(<<lat, lng>>))

NotFoundAt(lat, lng) == Result(FALSE, None, None, None, None, None, Some(<<lat, lng>>))

\* the cache used for every candidate that has a district id
Cached_NoSizeGuard(c) == c.metadata.districtId # None

\* The cache is used for a candidate that has a district id, when the
\* configured size is positive
Cached(c) == c.metadata.districtId # None /\ geometryCacheSize > 0

\* The top of the loop of lookupSchoolDistrict for candidate i, on cache gc:
\* past the last candidate the lookup returns not-found; otherwise
\* loadDistrictGeometry is called and runs up to its first await, returning
\* at once on a cache hit.  Gives the query and the cache afterwards.
Enter(query, i, gc) ==
    IF i > Len(query.candidates)
    THEN [q |-> [query EXCEPT !.pc = "done", !.i = i, !.geometry = None, !.code = 200,
                              !.body = NotFoundAt(query.lat, query.lng)],
          cache |-> gc]
    ELSE LET c == query.candidates[i]
             got == LRUGet(gc, c.metadata.districtId[1])
         IN  IF Cached(c) /\ got.value # None
             THEN [q |-> [query EXCEPT !.pc = "have", !.i = i, !.geometry = got.value,
                                       !.fromCache = TRUE],
                   cache |-> got.cache]
             ELSE [q |-> [query EXCEPT !.pc = "loading", !.i = i, !.geometry = None,
                                       !.fromCache = FALSE],
                   cache |-> gc]

EnterLoop(q, query, i) ==
    LET r == Enter(query, i, geometryCache)
    IN  /\ queries' = [queries EXCEPT ![q] = r.q]
        /\ geometryCache' = r.cache

\* The route handler up to its first await: GET /school-district converts
\* the query strings with Number(), POST /lookup takes lat and lng of the
\* body; both validate and then call lookupSchoolDistrict
Begin(q) ==
    /\ queries[q].pc = "new"
    /\ queries[q].req.entry \in {"GET", "POST"}
    /\ LET request == queries[q].req
           missing == request.entry = "POST" /\ request.lats = <<>>
           lat == IF request.entry = "GET" THEN Number(request.lats[1])
                  ELSE IF missing THEN NaN
                  ELSE NumberOfJson(JsOr(request.lats[1], JUndefined))
           lng == IF request.entry = "GET" THEN Number(request.lngs[1])
                  ELSE IF missing THEN NaN
                  ELSE NumberOfJson(JsOr(request.lngs[1], JUndefined))
           errors == IF missing
                     THEN {IF body = "undefined"
                           THEN Some("Request body must be a JSON object with lat and lng properties")
                           ELSE ValidationError(lat, lng) : body \in MissingBody}
                     ELSE {ValidationError(lat, lng)}
       IN  \E error \in errors :
              IF error # None
              THEN /\ queries' = [queries EXCEPT ![q] =
                         [@ EXCEPT !.pc = "done", !.lat = lat, !.lng = lng, !.code = 400,
                                   !.body = ErrorBody(error[1])]]
                   /\ UNCHANGED geometryCache
              ELSE EnterLoop(q, [queries[q] EXCEPT !.lat = lat, !.lng = lng,
                                     !.candidates = search(buildSpatialIndex(records),
                                                           lng.v, lat.v)], 1)
    /\ UNCHANGED <<records, geometryCacheSize, sqliteVars, lruVars, lifeVars, buildVars, gradeVars, downloadVars>>

\* loadDistrictGeometry after its reads: the geometry of the record is
\* simplified, cached and returned
LoadReturns(q) ==
    /\ queries[q].pc = "loading"
    /\ LET c == queries[q].candidates[queries[q].i]
           read == ReadLoop(records, 0, c.metadata.recordIndex)
       IN  IF read # None
           THEN /\ geometryCache' =
                      IF Cached(c)
                      THEN LRUSet(geometryCache, geometryCacheSize,
                                  c.metadata.districtId[1], simplify(read[1]))
                      ELSE geometryCache
                /\ queries' = [queries EXCEPT ![q] =
                      [@ EXCEPT !.pc = "have", !.geometry = Some(simplify(read[1]))]]
           ELSE /\ queries' = [queries EXCEPT ![q] = [@ EXCEPT !.pc = "have", !.geometry = None]]
                /\ UNCHANGED geometryCache
    /\ UNCHANGED <<records, geometryCacheSize, sqliteVars, lruVars, lifeVars, buildVars, gradeVars, downloadVars>>

\* shapefile.open or source.read rejects: loadDistrictGeometry and
\* lookupSchoolDistrict reject with it; GET /school-district and POST
\* /lookup do not catch it, and the error handler answers
LoadThrows(q) ==
    /\ queries[q].pc = "loading"
    /\ queries[q].req.entry \in {"GET", "POST"}
    /\ queries' = [queries EXCEPT ![q] =
          [@ EXCEPT !.pc = "raised", !.code = 500, !.body = ErrorBody("Something went wrong")]]
    /\ UNCHANGED <<records, geometryCacheSize, geometryCache, sqliteVars, lruVars, lifeVars, buildVars, gradeVars, downloadVars>>

\* lookupSchoolDistrict resumes with the geometry: a hit is answered, a miss
\* goes on with the next candidate
Resume(q) ==
    /\ queries[q].pc = "have"
    /\ LET query == queries[q]
           c == query.candidates[query.i]
       IN  IF query.geometry # None /\ <<query.lng.v, query.lat.v>> \in query.geometry[1]
           THEN /\ queries' = [queries EXCEPT ![q] =
                      [@ EXCEPT !.pc = "done", !.code = 200,
                                !.body = FoundResult(c, query.lat, query.lng)]]
                /\ UNCHANGED geometryCache
           ELSE EnterLoop(q, query, query.i + 1)
    /\ UNCHANGED <<records, geometryCacheSize, sqliteVars, lruVars, lifeVars, buildVars, gradeVars, downloadVars>>

NextRtree ==
    \E q \in DOMAIN queries : Begin(q) \/ LoadReturns(q) \/ LoadThrows(q) \/ Resume(q)

\* The points looked up concurrently
RtreePoints == {<<LAT_MIN, LNG_MIN>>, <<MidLat, MidLng>>, <<LAT_MAX, LNG_MIN>>}

RtreeLookups ==
    {Request("GET", FALSE, <<TxtInt(p[1])>>, <<TxtInt(p[2])>>, <<>>) : p \in RtreePoints}

InitRtree ==
    /\ records \in Shapefiles(MaxRecords)
    /\ geometryCacheSize \in 0..MaxGeometryCacheSize
    /\ geometryCache = <<>>
    /\ queries \in [1..MaxQueries -> {NewQuery(r) : r \in RtreeLookups}]
    /\ SqliteOff /\ LruOff /\ ProcessOff

SpecRtree == InitRtree /\ [][NextRtree]_vars

\* One request of any kind to the R-tree service
RtreeRequests ==
    {Request("GET", FALSE, <<a>>, <<b>>, <<>>) : a \in LatTexts, b \in LngTexts}
        \cup {Request("POST", FALSE, <<a>>, <<b>>, <<>>) : a \in LatJson, b \in LngJson}
        \cup {Request("POST", FALSE, <<>>, <<>>, <<>>)}

InitRtreeRoutes ==
    /\ records \in Shapefiles(MaxRecords)
    /\ geometryCacheSize \in 0..MaxGeometryCacheSize
    /\ geometryCache = <<>>
    /\ queries \in {<<NewQuery(r)>> : r \in RtreeRequests}
    /\ SqliteOff /\ LruOff /\ ProcessOff

SpecRtreeRoutes == InitRtreeRoutes /\ [][NextRtree]_vars

\* ------------------------------------------------------------------------
\* Claims about the lookups of the R-tree service
\* ------------------------------------------------------------------------
\* C7 (as claimed): a lookup never throws to its caller, whatever fails
\* inside the query.
C7_LookupNeverRaises == \A q \in DOMAIN queries : queries[q].pc # "raised"

\* What lookupSchoolDistrict gives without a cache: the first candidate of
\* the search whose simplified geometry contains the point
Uncached(lat, lng) ==
    LET candidates == search(buildSpatialIndex(records), lng.v, lat.v)
        hits == {k \in 1..Len(candidates) :
                    <<lng.v, lat.v>> \in simplify(records[candidates[k].metadata.recordIndex + 1])}
    IN  IF hits = {} THEN NotFoundAt(lat, lng)
        ELSE FoundResult(candidates[MinOf(hits)], lat, lng)

Answered == {q \in DOMAIN queries : queries[q].pc = "done" /\ queries[q].code = 200}

OutOfRange(lat, lng) ==
    \/ NumLT(lat, Num(LAT_MIN)) \/ NumLT(Num(LAT_MAX), lat)
    \/ NumLT(lng, Num(LNG_MIN)) \/ NumLT(Num(LNG_MAX), lng)

\* C3 (as claimed): on every route a coordinate is rejected exactly when it
\* lies outside lat 18..72, lng -180..-65: a coordinate outside the range
\* reaches no probe and gets no district, and a numeric coordinate inside
\* the range is looked up.
C3_RangeEnforced ==
    \A i \in 1..Len(last.items) :
        LET it == last.items[i]
        IN  /\ OutOfRange(it.lat, it.lng) => (it.probes = <<>> /\ ~it.body.status)
            /\ (~isNaN(it.lat) /\ ~isNaN(it.lng) /\ ~OutOfRange(it.lat, it.lng))
                   => it.probes # <<>>

\* C4 (as claimed): a coordinate whose lat or lng is NaN, infinite, null,
\* missing or not a number is rejected without any probe of the store, with
\* status 400 on the routes that take one coordinate.
C4_NonFiniteRejected ==
    \A i \in 1..Len(last.items) :
        LET it == last.items[i]
        IN  (~IsFinite(it.lat) \/ ~IsFinite(it.lng))
                => /\ it.probes = <<>>
                   /\ it.body.error # None
                   /\ last.entry \in {"GET", "POST"} => last.code = 400

\* ------------------------------------------------------------------------
\* Claims about the calls of an LRUCache
\* ------------------------------------------------------------------------
\* The entries of m without key, in their order
Others(m, key) == SelectSeq(m, LAMBDA e : e.key # key)

\* C11: get(k) of a present key returns its value and moves k behind every
\* other entry, the others keeping their values and their order; get of an
\* absent key returns undefined and leaves the cache as it was.  As set
\* removes only the first entry of that order, k is evicted after a get only
\* once every other key then present has been evicted or moved behind it.
C11_GetTouches ==
    /\ (ret.op = "get" /\ MapHas(ret.before, ret.key))
          => /\ ret.value = Some(MapGet(ret.before, ret.key))
             /\ cache = Append(Others(ret.before, ret.key),
                               Entry(ret.key, MapGet(ret.before, ret.key)))
    /\ (ret.op = "get" /\ ~MapHas(ret.before, ret.key))
          => (ret.value = None /\ cache = ret.before)
    /\ (ret.op = "set" /\ ret.before # <<>>)
          => /\ CacheKeys(ret.before) \ CacheKeys(cache) \subseteq {ret.before[1].key}
             /\ Others(cache, ret.key) \in
                   {Others(ret.before, ret.key),
                    Others(SubSeq(ret.before, 2, Len(ret.before)), ret.key)}

\* get has moved the least recently used key of a full cache of two or more
\* entries behind the others
C11_Witness ==
    /\ ret.op = "get" /\ Len(ret.before) = maxSize /\ maxSize >= 2
    /\ ret.before[1].key = ret.key
    /\ cache[Len(cache)].key = ret.key

\* C12: set(k, v) of a key that is present replaces its value and moves it
\* behind every other entry; the size is unchanged and every other key stays
\* with its value, also when the cache is full.
C12_SetPresentKeepsOthers ==
    (ret.op = "set" /\ MapHas(ret.before, ret.key))
        => /\ cache = Append(Others(ret.before, ret.key), Entry(ret.key, ret.value[1]))
           /\ LRUSize(cache) = LRUSize(ret.before)

\* set has given a new value to a key of a full cache that was not its
\* least recently used one
C12_Witness ==
    /\ ret.op = "set" /\ MapHas(ret.before, ret.key)
    /\ Len(ret.before) = maxSize /\ maxSize >= 2
    /\ ret.before[1].key # ret.key
    /\ MapGet(ret.before, ret.key) # ret.value[1]
    /\ MapGet(cache, ret.key) = ret.value[1]

\* ------------------------------------------------------------------------
\* An empty LRUCache filled with distinct keys
\* ------------------------------------------------------------------------
\* The keys are set in the order 1, 2, ...: the number of keys inserted so
\* far is the key of the last call
Inserted == IF ret.op = "set" THEN ret.key ELSE 0

\* two keys more than the largest capacity
FillKeys == 1..(MaxCapacity + 2)

FillSet ==
    \E value \in Values :
        /\ Inserted + 1 \in FillKeys
        /\ cache' = LRUSet(cache, maxSize, Inserted + 1, value)
        /\ ret' = Call("set", Inserted + 1, Some(value), cache)
        /\ UNCHANGED <<maxSize, sqliteVars, rtreeVars, lifeVars, buildVars, gradeVars, downloadVars>>

SpecFill == InitLRU /\ [][FillSet]_vars

\* C13 (as claimed): once as many distinct keys as the capacity have been
\* inserted into an empty cache, the key inserted first is absent.
C13_Original == (Inserted = maxSize /\ maxSize >= 1) => ~MapHas(cache, 1)

\* The number of entries the cache keeps: a cache of capacity 0 keeps one
Kept == IF maxSize = 0 THEN 1 ELSE maxSize

\* C13: of the distinct keys inserted into an empty cache, none touched
\* since, the cache holds the last ones, as many as it keeps: the key
\* inserted first is present until as many keys as the capacity have been
\* inserted and absent once one more has been.
C13_EarliestAbsentAfterOneMore ==
    /\ CacheKeys(cache) = {k \in 1..Inserted : k > Inserted - Kept}
    /\ Inserted >= 1 => (MapHas(cache, 1) <=> Inserted <= Kept)

\* capacity + 1 keys have been inserted into a cache of capacity two or more
\* and the first is gone
C13_Witness ==
    /\ maxSize >= 2 /\ Inserted = maxSize + 1
    /\ ~MapHas(cache, 1) /\ MapHas(cache, 2)

C15_CountAndIndex ==
    (last.entry = "BATCH" /\ last.code = 200)
        => /\ "count" \in DOMAIN last
           /\ last.count = Len(last.items)
           /\ \A i \in 1..Len(last.items) :
                /\ "index" \in DOMAIN last.items[i]
                /\ last.items[i].index = i - 1

\* ------------------------------------------------------------------------
\* The batch route of the R-tree service
\* ------------------------------------------------------------------------
\* A coordinate object of the body
JCoord(lat, lng) == [j |-> "object", lat |-> lat, lng |-> lng]

\* The body of POST /school-districts/batch
BatchBody(isArray, coords) == [entry |-> "BATCH", isArray |-> isArray, coords |-> coords]

\* config.api.maxBatchSize (MAX_BATCH_SIZE, 1 to 100)
maxBatchSize == MaxBatch

\* One entry of results; the slot of Promise.all for a callback that has not
\* returned yet holds Pending
BatchItem(index, body) == [index |-> index, body |-> body]

Pending == BatchItem(-1, NotFound)

\* The answer of the batch route: code is 0 while Promise.all is awaited
BatchResponse(code, error, count, items) ==
    [entry |-> "BATCH", code |-> code, error |-> error, count |-> count, items |-> items]

\* The callback of req.body.map for one coordinate, up to its first await,
\* on cache gc: the entry of an invalid coordinate is returned at once, a
\* valid one starts lookupSchoolDistrict
StartElement(coord, gc) ==
    LET query == NewQuery([entry |-> "BATCH", coord |-> coord])
        isObject == typeof(coord) = "object" /\ coord.j # "null"
        lat == IF isObject THEN NumberOfJson(JsOr(coord.lat, JUndefined)) ELSE NaN
        lng == IF isObject THEN NumberOfJson(JsOr(coord.lng, JUndefined)) ELSE NaN
        error == IF isObject THEN ValidationError(lat, lng)
                 ELSE Some("Invalid coordinate object")
    IN  IF error # None
        THEN [q |-> [query EXCEPT !.pc = "done", !.lat = lat, !.lng = lng,
                                  !.body = ErrorBody(error[1])],
              cache |-> gc]
        ELSE Enter([query EXCEPT !.lat = lat, !.lng = lng,
                        !.candidates = search(buildSpatialIndex(records), lng.v, lat.v)],
                   1, gc)

\* req.body.map runs the callbacks one after the other, each up to its
\* first await
RECURSIVE StartAll(_, _, _)
StartAll(coords, i, gc) ==
    IF i > Len(coords) THEN [qs |-> <<>>, cache |-> gc]
    ELSE LET first == StartElement(coords[i], gc)
             rest == StartAll(coords, i + 1, first.cache)
         IN  [qs |-> <<first.q>> \o rest.qs, cache |-> rest.cache]

\* POST /school-districts/batch up to its await of Promise.all.  The
\* callbacks of the batch are queries 1..n; lookups already in progress keep
\* their state behind them.
BatchAccept ==
    /\ req.entry = "BATCH"
    /\ IF ~req.isArray
       THEN /\ last' = BatchResponse(400,
                          Some("Request body must be an array of coordinate objects"),
                          None, <<>>)
            /\ UNCHANGED <<queries, geometryCache>>
       ELSE IF Len(req.coords) = 0
       THEN /\ last' = BatchResponse(400,
                          Some("Request body must contain at least one coordinate"),
                          None, <<>>)
            /\ UNCHANGED <<queries, geometryCache>>
       ELSE IF Len(req.coords) > maxBatchSize
       THEN /\ last' = BatchResponse(400,
                          Some("Maximum coordinates allowed per batch request"), None, <<>>)
            /\ UNCHANGED <<queries, geometryCache>>
       ELSE LET started == StartAll(req.coords, 1, geometryCache)
            IN  /\ last' = BatchResponse(0, None, None, [i \in 1..Len(req.coords) |-> Pending])
                /\ queries' = started.qs \o queries
                /\ geometryCache' = started.cache
    /\ req' = NoRequest
    /\ UNCHANGED <<records, geometryCacheSize, db, tie, lruVars, lifeVars, buildVars, gradeVars, downloadVars>>

\* shapefile.open or source.read rejects inside a callback of the batch:
\* the callback catches the rejection of lookupSchoolDistrict and returns an
\* error entry
BatchLoadThrows(q) ==
    /\ queries[q].pc = "loading"
    /\ queries[q].req.entry = "BATCH"
    /\ queries' = [queries EXCEPT ![q] =
          [@ EXCEPT !.pc = "done", !.code = 0,
                    !.body = ErrorBody("Internal error during lookup")]]
    /\ UNCHANGED <<records, geometryCacheSize, geometryCache, sqliteVars, lruVars, lifeVars, buildVars, gradeVars, downloadVars>>

\* a resolution that takes the next free slot instead of the slot of index
PromiseAllResolve_Push(values, index, value) ==
    LET free == {i \in 1..Len(values) : values[i] = Pending}
    IN  [values EXCEPT ![MinOf(free)] = value]

\* Promise.all: the value a promise resolves with is kept at the position
\* of the promise
PromiseAllResolve(values, index, value) == [values EXCEPT ![index] = value]

\* The promise of callback q resolves with its entry {index, ...result}
Settle(q) ==
    /\ last.entry = "BATCH" /\ last.code = 0
    /\ q <= Len(last.items) /\ last.items[q] = Pending
    /\ queries[q].pc = "done"
    /\ last' = [last EXCEPT !.items =
                  PromiseAllResolve(last.items, q, BatchItem(q - 1, queries[q].body))]
    /\ UNCHANGED <<req, db, tie, rtreeVars, lruVars, lifeVars, buildVars, gradeVars, downloadVars>>

\* Promise.all has resolved: res.json({count, results})
BatchRespond ==
    /\ last.entry = "BATCH" /\ last.code = 0
    /\ \A i \in 1..Len(last.items) : last.items[i] # Pending
    /\ last' = [last EXCEPT !.code = 200, !.count = Some(Len(last.items))]
    /\ UNCHANGED <<req, db, tie, rtreeVars, lruVars, lifeVars, buildVars, gradeVars, downloadVars>>

\* A callback of the batch has returned and its promise has not resolved
\* yet.  The resolution is a microtask: it runs before the continuation of
\* any other lookup, which waits for a read of the shapefile.
Unsettled ==
    /\ last.entry = "BATCH" /\ last.code = 0
    /\ \E q \in 1..Len(last.items) : last.items[q] = Pending /\ queries[q].pc = "done"

NextRtreeBatch ==
    \/ BatchAccept
    \/ BatchRespond
    \/ \E q \in DOMAIN queries :
          \/ Settle(q)
          \/ /\ ~Unsettled
             /\ \/ Begin(q) \/ LoadReturns(q) \/ LoadThrows(q) \/ Resume(q)
                \/ BatchLoadThrows(q)

\* The coordinates sent in a batch: two points of the accepted range, a
\* latitude that is not a number, a latitude below the range, and null
RtreeElements ==
    {JCoord(JNumber(Num(LAT_MIN)), JNumber(Num(LNG_MIN))),
     JCoord(JNumber(Num(MidLat)), JNumber(Num(MidLng))),
     JCoord(JString, JNumber(Num(MidLng))),
     JCoord(JNumber(Num(LAT_MIN - 1)), JNumber(Num(MidLng))),
     JNull}

RtreeBatchBodies ==
    {BatchBody(FALSE, <<>>)}
        \cup UNION { {BatchBody(TRUE, cs) : cs \in [1..n -> RtreeElements]} :
                     n \in 0..maxBatchSize }
        \cup {BatchBody(TRUE, [i \in 1..(maxBatchSize + 1) |-> e]) : e \in RtreeElements}

\* A batch alone, or a batch of one coordinate with POST /lookup of the same
\* coordinate running beside it
RtreeBatchRuns ==
    {<<body, <<>>>> : body \in RtreeBatchBodies}
        \cup {<<BatchBody(TRUE, <<c>>),
                <<NewQuery(Request("POST", FALSE, <<c.lat>>, <<c.lng>>, <<>>))>>>> :
              c \in RtreeElements \ {JNull}}

InitRtreeBatch ==
    /\ records \in Shapefiles(MaxRecords)
    /\ geometryCacheSize \in 0..MaxGeometryCacheSize
    /\ geometryCache = <<>>
    /\ \E run \in RtreeBatchRuns : req = run[1] /\ queries = run[2]
    /\ last = NoResponse
    /\ db = <<>> /\ tie = "scan"
    /\ LruOff /\ ProcessOff

SpecRtreeBatch == InitRtreeBatch /\ [][NextRtreeBatch]_vars

\* C19 (as claimed): POST /lookup without a body, or with a body whose lat
\* or lng is missing or not a number, is answered 400 with status false and
\* the error 'Invalid coordinates', and no lookup runs.
C19_BadBodyRejected ==
    [][(/\ req.entry = "POST"
        /\ \/ req.lats = <<>>
           \/ typeof(req.lats[1]) # "number"
           \/ typeof(req.lngs[1]) # "number")
          => /\ last'.code = 400
             /\ Len(last'.items) = 1
             /\ ~last'.items[1].body.status
             /\ last'.items[1].body.error = Some("Invalid coordinates")
             /\ last'.items[1].probes = <<>>]_vars

\* C17: a batch of more than 100 coordinates is turned away as a whole, with
\* status 400, an error and no lookup for any of its coordinates; a batch
\* of 100 coordinates or fewer is processed, one result per coordinate.
C17_OverlongBatchRejected ==
    [][(req.entry = "BATCH" /\ req.isArray /\ last'.entry = "BATCH")
          => /\ Len(req.lats) > BATCH_MAX
                  => /\ last'.code = 400
                     /\ last'.error # None
                     /\ last'.items = <<>>
             /\ Len(req.lats) <= BATCH_MAX
                  => /\ last'.code = 200
                     /\ last'.error = None
                     /\ Len(last'.items) = Len(req.lats)]_vars

\* a batch has been turned away for its length
C17_Witness ==
    /\ last.entry = "BATCH" /\ last.code = 400
    /\ last.error = Some("Maximum 100 coordinates per batch")
    /\ last.items = <<>>

\* ------------------------------------------------------------------------
\* Claims about the batch route of the R-tree service
\* ------------------------------------------------------------------------
\* The latitude and longitude a callback of the batch reads from its
\* coordinate
CoordLat(coord) == NumberOfJson(JsOr(coord.lat, JUndefined))

CoordLng(coord) == NumberOfJson(JsOr(coord.lng, JUndefined))

\* A coordinate that is not an object, not numeric, or outside the range
InvalidCoord(coord) ==
    \/ coord.j # "object"
    \/ isNaN(CoordLat(coord)) \/ isNaN(CoordLng(coord))
    \/ OutOfRange(CoordLat(coord), CoordLng(coord))

ValidationTexts ==
    {"Invalid coordinate object",
     "Invalid coordinates: lat and lng must be numbers",
     "Latitude out of bounds for US territories (18 to 72)",
     "Longitude out of bounds for US territories (-180 to -65)"}

InternalEntry == ErrorBody("Internal error during lookup")

C16_BatchOfOneIsLookup ==
    (/\ last.entry = "BATCH" /\ last.code = 200 /\ Len(last.items) = 1
     /\ Len(queries) = 2 /\ queries[2].pc \in {"done", "raised"})
        => LET batch == last.items[1].body
               single == queries[2]
           IN  ((batch = InternalEntry) <=> (single.pc = "raised"))
                   => /\ single.pc = "done"
                      /\ batch.status = single.body.status
                      /\ batch.districtId = single.body.districtId
                      /\ batch.districtName = single.body.districtName
                      /\ batch.error = single.body.error

\* C20 (as claimed): GET /school-district for a coordinate outside the
\* United States (finite, outside lat 18..72, lng -180..-65) is answered with
\* 200, status false and null districtId and districtName: no district, not
\* even a nearest one, is reported (as long as no statement of the store
\* throws).
C20_OutsideUsNoDistrict ==
    (last.entry = "GET"
        /\ \E i \in 1..Len(last.items) :
              /\ last.items[i].fault = "none"
              /\ IsFinite(last.items[i].lat) /\ IsFinite(last.items[i].lng)
              /\ OutOfRange(last.items[i].lat, last.items[i].lng))
        => /\ last.code = 200
           /\ \A i \in 1..Len(last.items) : IsNotFound(last.items[i].body)

\* ------------------------------------------------------------------------
\* The process of either server: start, sockets, shutdown
\* ------------------------------------------------------------------------
\* sockets a server has over its life
MaxSockets == 2

\* calls of shutdown (signals, uncaught errors) in one run
MaxSignals == 2

\* A socket: "none" before it connects, "open", "ended" once the server has
\* called end() on it (no response can be written any more, requests can
\* still be read), "closed".  Its request: "none", "running", "answered",
\* "cut" (finished on an ended socket), "lost" (the socket closed first) or
\* "failed" (the handler threw).  late: a lookup started on it after
\* shutdown had been called.
Socket(state, request, late) == [state |-> state, request |-> request, late |-> late]

NoSocket == Socket("none", "none", FALSE)

Readable(sock) == sock.state \in {"open", "ended"}

Drained_Always(socks) == TRUE

\* net.Server calls the callbacks of close() once no socket is left
Drained(socks) == \A s \in DOMAIN socks : ~Readable(socks[s])

Openable_Any(file) == TRUE

\* new Database(DB_PATH, {fileMustExist}) and prepare(), or shapefile.open,
\* succeed
Openable(file) == file = "ok"

Running == exitCode = None

\* SQLite service: the module body, from the existence check to app.listen
InitialiseSqlite ==
    /\ service = "sqlite" /\ Running /\ stage = "start"
    /\ IF Openable(storeFile)
         THEN /\ handle' = "open"
              /\ server' = "listening"
              /\ stage' = "listening"
              /\ UNCHANGED exitCode
         ELSE /\ stage' = "failed"
              /\ exitCode' = Some(1)
              /\ UNCHANGED <<handle, server>>
    /\ UNCHANGED <<service, storeFile, spatialIndex, sockets, connections, isShuttingDown,
                   timers, closeListeners, signals>>
    /\ UNCHANGED <<sqliteVars, rtreeVars, lruVars, buildVars, gradeVars, downloadVars>>

\* R-tree service: startServer up to the end of ensureLatestData; a missing
\* shapefile is downloaded
EnsureLatestData ==
    /\ service = "rtree" /\ Running /\ stage = "start"
    /\ \E downloaded \in BOOLEAN :
          IF storeFile # "missing"
            THEN stage' = "data" /\ UNCHANGED <<storeFile, exitCode>>
            ELSE IF downloaded
            THEN stage' = "data" /\ storeFile' = "ok" /\ UNCHANGED exitCode
            ELSE stage' = "failed" /\ exitCode' = Some(1) /\ UNCHANGED storeFile
    /\ UNCHANGED <<service, handle, spatialIndex, server, sockets, connections,
                   isShuttingDown, timers, closeListeners, signals>>
    /\ UNCHANGED <<sqliteVars, rtreeVars, lruVars, buildVars, gradeVars, downloadVars>>

\* R-tree service: startServer from buildSpatialIndex to app.listen
BuildSpatialIndex ==
    /\ service = "rtree" /\ Running /\ stage = "data"
    /\ IF Openable(storeFile)
         THEN /\ spatialIndex' = "built"
              /\ server' = "listening"
              /\ stage' = "listening"
              /\ UNCHANGED exitCode
         ELSE /\ stage' = "failed"
              /\ exitCode' = Some(1)
              /\ UNCHANGED <<spatialIndex, server>>
    /\ UNCHANGED <<service, storeFile, handle, sockets, connections, isShuttingDown,
                   timers, closeListeners, signals>>
    /\ UNCHANGED <<sqliteVars, rtreeVars, lruVars, buildVars, gradeVars, downloadVars>>

\* A client connects; the R-tree service tracks the socket
Connect(s) ==
    /\ Running /\ server = "listening" /\ sockets[s].state = "none"
    /\ sockets' = [sockets EXCEPT ![s] = Socket("open", "none", FALSE)]
    /\ connections' = IF service = "rtree" THEN connections \cup {s} ELSE connections
    /\ UNCHANGED <<service, storeFile, stage, handle, spatialIndex, server, isShuttingDown,
                   timers, closeListeners, signals, exitCode>>
    /\ UNCHANGED <<sqliteVars, rtreeVars, lruVars, buildVars, gradeVars, downloadVars>>

\* The socket closes: the client closes it, or it idled for keepAliveTimeout.
\* A request the SQLite service was still receiving is aborted; a lookup of
\* the R-tree service goes on.
SocketClose(s) ==
    /\ Running /\ Readable(sockets[s])
    /\ sockets' = [sockets EXCEPT ![s] =
                      Socket("closed",
                             IF service = "sqlite" /\ @.request = "running"
                               THEN "lost" ELSE @.request,
                             @.late)]
    /\ connections' = connections \ {s}
    /\ UNCHANGED <<service, storeFile, stage, handle, spatialIndex, server, isShuttingDown,
                   timers, closeListeners, signals, exitCode>>
    /\ UNCHANGED <<sqliteVars, rtreeVars, lruVars, buildVars, gradeVars, downloadVars>>

\* R-tree service: a request arrives on a socket; the tracking middleware
\* adds the socket and the handler starts its lookup
RequestStart(s) ==
    /\ service = "rtree" /\ Running
    /\ Readable(sockets[s]) /\ sockets[s].request # "running"
    /\ sockets' = [sockets EXCEPT ![s] = Socket(@.state, "running", @.late \/ isShuttingDown)]
    /\ connections' = connections \cup {s}
    /\ UNCHANGED <<service, storeFile, stage, handle, spatialIndex, server, isShuttingDown,
                   timers, closeListeners, signals, exitCode>>
    /\ UNCHANGED <<sqliteVars, rtreeVars, lruVars, buildVars, gradeVars, downloadVars>>

\* R-tree service: the lookup is over and the handler writes the response;
\* 'finish' takes the socket out of connections
RequestEnd(s) ==
    /\ service = "rtree" /\ Running /\ sockets[s].request = "running"
    /\ sockets' = [sockets EXCEPT ![s] =
                      Socket(@.state,
                             IF @.state = "open" THEN "answered"
                             ELSE IF @.state = "ended" THEN "cut" ELSE "lost",
                             @.late)]
    /\ connections' = IF sockets[s].state = "open" THEN connections \ {s} ELSE connections
    /\ UNCHANGED <<service, storeFile, stage, handle, spatialIndex, server, isShuttingDown,
                   timers, closeListeners, signals, exitCode>>
    /\ UNCHANGED <<sqliteVars, rtreeVars, lruVars, buildVars, gradeVars, downloadVars>>

\* R-tree service: shutdown(signal), called for SIGINT, SIGTERM,
\* uncaughtException and unhandledRejection
Shutdown ==
    /\ service = "rtree" /\ Running /\ signals < MaxSignals
    /\ signals' = signals + 1
    /\ IF isShuttingDown
         THEN UNCHANGED <<isShuttingDown, server, closeListeners, sockets, timers, exitCode>>
         ELSE /\ isShuttingDown' = TRUE
              /\ IF server # "undefined"
                   THEN /\ server' = "closing"
                        /\ closeListeners' = closeListeners + 1
                        /\ sockets' = [s \in DOMAIN sockets |->
                                          IF s \in connections /\ sockets[s].state = "open"
                                            THEN Socket("ended", sockets[s].request, sockets[s].late)
                                            ELSE sockets[s]]
                        /\ timers' = {"destroy", "force"}
                        /\ UNCHANGED exitCode
                   ELSE /\ exitCode' = Some(0)
                        /\ UNCHANGED <<server, closeListeners, sockets, timers>>
    /\ UNCHANGED <<service, storeFile, stage, handle, spatialIndex, connections>>
    /\ UNCHANGED <<sqliteVars, rtreeVars, lruVars, buildVars, gradeVars, downloadVars>>

\* R-tree service: the timeout of 5000 ms destroys the tracked sockets
DestroyTimer ==
    /\ service = "rtree" /\ Running /\ "destroy" \in timers
    /\ timers' = timers \ {"destroy"}
    /\ sockets' = [s \in DOMAIN sockets |->
                      IF s \in connections
                        THEN Socket("closed", sockets[s].request, sockets[s].late)
                        ELSE sockets[s]]
    /\ connections' = {}
    /\ UNCHANGED <<service, storeFile, stage, handle, spatialIndex, server, isShuttingDown,
                   closeListeners, signals, exitCode>>
    /\ UNCHANGED <<sqliteVars, rtreeVars, lruVars, buildVars, gradeVars, downloadVars>>

\* R-tree service: the timeout of 30000 ms ends the process
ForceTimer ==
    /\ service = "rtree" /\ Running /\ timers = {"force"}
    /\ timers' = {}
    /\ exitCode' = Some(1)
    /\ UNCHANGED <<service, storeFile, stage, handle, spatialIndex, server, sockets,
                   connections, isShuttingDown, closeListeners, signals>>
    /\ UNCHANGED <<sqliteVars, rtreeVars, lruVars, buildVars, gradeVars, downloadVars>>

\* R-tree service: the callback of server.close; err is set only for a
\* server that was not running
ServerClosed ==
    /\ service = "rtree" /\ Running /\ server = "closing" /\ Drained(sockets)
    /\ server' = "closed"
    /\ closeListeners' = 0
    /\ exitCode' = Some(0)
    /\ UNCHANGED <<service, storeFile, stage, handle, spatialIndex, sockets, connections,
                   isShuttingDown, timers, signals>>
    /\ UNCHANGED <<sqliteVars, rtreeVars, lruVars, buildVars, gradeVars, downloadVars>>

\* SQLite service: a request starts to arrive (express.json reads its body)
ReceiveSqlite(s) ==
    /\ service = "sqlite" /\ Running
    /\ sockets[s].state = "open" /\ sockets[s].request # "running"
    /\ sockets' = [sockets EXCEPT ![s] = Socket(@.state, "running", @.late)]
    /\ UNCHANGED <<service, storeFile, stage, handle, spatialIndex, server, connections,
                   isShuttingDown, timers, closeListeners, signals, exitCode>>
    /\ UNCHANGED <<sqliteVars, rtreeVars, lruVars, buildVars, gradeVars, downloadVars>>

\* SQLite service: the handler runs its lookup and answers, in one turn; a
\* statement of a closed connection throws
HandleSqlite(s) ==
    /\ service = "sqlite" /\ Running
    /\ sockets[s].state = "open" /\ sockets[s].request = "running"
    /\ sockets' = [sockets EXCEPT ![s] =
                      Socket(@.state,
                             IF handle = "open" THEN "answered" ELSE "failed",
                             @.late \/ signals > 0)]
    /\ UNCHANGED <<service, storeFile, stage, handle, spatialIndex, server, connections,
                   isShuttingDown, timers, closeListeners, signals, exitCode>>
    /\ UNCHANGED <<sqliteVars, rtreeVars, lruVars, buildVars, gradeVars, downloadVars>>

\* SQLite service: shutdown() up to its await
ShutdownSqlite ==
    /\ service = "sqlite" /\ Running /\ stage = "listening" /\ signals < MaxSignals
    /\ signals' = signals + 1
    /\ server' = "closing"
    /\ closeListeners' = closeListeners + 1
    /\ UNCHANGED <<service, storeFile, stage, handle, spatialIndex, sockets, connections,
                   isShuttingDown, timers, exitCode>>
    /\ UNCHANGED <<sqliteVars, rtreeVars, lruVars, buildVars, gradeVars, downloadVars>>

\* SQLite service: shutdown() after its await: db.close() and process.exit(0)
ShutdownResume ==
    /\ service = "sqlite" /\ Running
    /\ server = "closing" /\ closeListeners > 0 /\ Drained(sockets)
    /\ server' = "closed"
    /\ closeListeners' = 0
    /\ handle' = "closed"
    /\ exitCode' = Some(0)
    /\ UNCHANGED <<service, storeFile, stage, spatialIndex, sockets, connections,
                   isShuttingDown, timers, signals>>
    /\ UNCHANGED <<sqliteVars, rtreeVars, lruVars, buildVars, gradeVars, downloadVars>>

InitLife ==
    /\ service \in {"sqlite", "rtree"}
    /\ storeFile \in {"ok", "missing", "corrupt"}
    /\ stage = "start" /\ handle = "none" /\ spatialIndex = "null"
    /\ server = "undefined"
    /\ sockets = [s \in 1..MaxSockets |-> NoSocket]
    /\ connections = {} /\ isShuttingDown = FALSE /\ timers = {}
    /\ closeListeners = 0 /\ signals = 0 /\ exitCode = None
    /\ SqliteOff /\ RtreeOff /\ LruOff /\ BuildOff /\ GradeOff /\ DownloadOff

NextLife ==
    \/ InitialiseSqlite
    \/ EnsureLatestData
    \/ BuildSpatialIndex
    \/ Shutdown
    \/ DestroyTimer
    \/ ForceTimer
    \/ ServerClosed
    \/ ShutdownSqlite
    \/ ShutdownResume
    \/ \E s \in 1..MaxSockets :
          \/ Connect(s)
          \/ SocketClose(s)
          \/ RequestStart(s)
          \/ RequestEnd(s)
          \/ ReceiveSqlite(s)
          \/ HandleSqlite(s)

SpecLife == InitLife /\ [][NextLife]_vars

\* The timeouts fire, the callbacks of close() are called once the server
\* has drained, and the steps of the start and the handlers go on; nothing
\* makes a client close its socket.
SpecLifeFair ==
    /\ SpecLife
    /\ WF_vars(DestroyTimer) /\ WF_vars(ForceTimer)
    /\ WF_vars(ServerClosed) /\ WF_vars(ShutdownResume)
    /\ WF_vars(InitialiseSqlite) /\ WF_vars(EnsureLatestData) /\ WF_vars(BuildSpatialIndex)
    /\ \A s \in 1..MaxSockets : WF_vars(RequestEnd(s)) /\ WF_vars(HandleSqlite(s))

\* ------------------------------------------------------------------------
\* Claims about shutdown and start
\* ------------------------------------------------------------------------
\* C21 (as claimed): shutdown is idempotent: a call of shutdown that is not
\* the first one closes nothing again, registers no further callback with
\* server.close, arms no timer and leaves the sockets, the store handle and
\* the exit code as they were.
C21_SecondShutdownChangesNothing ==
    [][(signals' > signals /\ signals >= 1)
          => UNCHANGED <<server, sockets, connections, timers, closeListeners, handle,
                         isShuttingDown, exitCode>>]_vars

\* C22 (as claimed): after a call of shutdown the process always exits, even
\* if a client never closes its socket.
C22_TerminatesAfterSignal == (signals > 0) ~> (exitCode # None)

\* C23 (as claimed): once shutdown has been called no lookup starts, and no
\* request that was running is cut off by the server before the timeout of
\* the grace window has fired.
C23_NoLookupAfterShutdown ==
    \A s \in DOMAIN sockets : ~sockets[s].late /\ sockets[s].request # "cut"

\* C24: in the SQLite service the store handle is closed only when no socket
\* is left and no request is still on its way, and no handler ever runs a
\* statement on a closed handle.
C24_HandleClosedLast ==
    service = "sqlite"
        => /\ \A s \in DOMAIN sockets : sockets[s].request # "failed"
           /\ handle = "closed"
                 => \A s \in DOMAIN sockets :
                       ~Readable(sockets[s]) /\ sockets[s].request # "running"

\* C24 witness: the handle is closed after a request was answered while the
\* server was closing.
C24_Witness ==
    /\ service = "sqlite" /\ handle = "closed"
    /\ \E s \in DOMAIN sockets : sockets[s].late /\ sockets[s].request = "answered"

Initialised ==
    IF service = "sqlite" THEN handle # "none" ELSE spatialIndex = "built"

\* C28: the server listens, and a socket or a request exists, only after the
\* store was opened (the index built) from a usable file; when the file is
\* missing or cannot be opened at that point the process exits with code 1
\* and has never listened.
C28_ServesOnlyInitialised ==
    /\ (server # "undefined" \/ \E s \in DOMAIN sockets : sockets[s] # NoSocket)
          => (Initialised /\ storeFile = "ok")
    /\ stage = "failed"
          => (exitCode = Some(1) /\ server = "undefined" /\ ~Initialised
              /\ \A s \in DOMAIN sockets : sockets[s] = NoSocket)
    /\ (storeFile # "ok" /\ stage \notin {"start", "data"}) => stage = "failed"
    /\ (storeFile = "corrupt" /\ service = "sqlite" /\ stage # "start") => stage = "failed"

\* C28 witness: a start that failed on a store that is missing or corrupt
C28_Witness == stage = "failed" /\ storeFile # "ok" /\ exitCode = Some(1)

\* ------------------------------------------------------------------------
\* The offline build: createDatabase of setup-database.ts
\* ------------------------------------------------------------------------
\* records of the shapefile the build reads
MaxSource == 2

\* A record of the shapefile: its GEOID (None when the property is absent)
\* and the type of its geometry: "null" for a record without geometry,
\* "invalid" for a polygon on which bbox, center or simplify throws
SourceRecord(GEOID, geometry) == [GEOID |-> GEOID, geometry |-> geometry]

SourceRecords ==
    {SourceRecord(g, t) : g \in {None, Some(""), Some("A"), Some("B")},
                     t \in {"Polygon", "MultiPolygon", "LineString", "null", "invalid"}}

RECURSIVE SeqsUpTo(_, _)
SeqsUpTo(S, n) ==
    IF n = 0 THEN {<<>>}
    ELSE LET shorter == SeqsUpTo(S, n - 1)
         IN  shorter \cup {Append(q, x) : q \in {r \in shorter : Len(r) = n - 1}, x \in S}

\* A row of the table districts
Row(id, geometry) == [id |-> id, geometry |-> geometry]

\* The file at DB_PATH: the rows of districts and whether the view
\* district_summary, the last object createDatabase creates, is there
StoreFile(rowsIn, view) == Some([rows |-> rowsIn, view |-> view])

OldStore == StoreFile(<<Row("A", "Polygon")>>, TRUE)

UniqueViolation_Off(rs) == FALSE

\* id TEXT PRIMARY KEY: insert.run throws when two rows have the same id
UniqueViolation(rs) == \E i, j \in DOMAIN rs : i < j /\ rs[i].id = rs[j].id

\* catch (rethrow) and finally (db.close()) of createDatabase
BuildFails ==
    /\ build' = "failed"
    /\ UNCHANGED <<source, buildFault, dbFile, buildRows, buildCount, buildSkipped, buildRead>>

\* createDatabase up to shapefile.open: the old file is unlinked, the new
\* one is created with the table and its indexes
CreateDatabase ==
    /\ build = "idle"
    /\ dbFile' = StoreFile(<<>>, FALSE)
    /\ build' = IF buildFault = "missing" THEN "failed" ELSE "reading"
    /\ UNCHANGED <<source, buildFault, buildRows, buildCount, buildSkipped, buildRead>>
    /\ UNCHANGED <<sqliteVars, rtreeVars, lruVars, lifeVars, gradeVars, downloadVars>>

\* One turn of the loop: source.read() gives a record
ReadRecord ==
    /\ build = "reading" /\ buildRead < Len(source)
    /\ \E fails \in IF buildFault = "read" THEN {TRUE, FALSE} ELSE {FALSE} :
          IF fails THEN BuildFails
          ELSE LET value == source[buildRead + 1]
               IN  /\ buildRead' = buildRead + 1
                   /\ IF value.geometry = "null"
                        THEN UNCHANGED <<buildRows, buildCount, buildSkipped>>
                        ELSE IF value.GEOID \in {None, Some("")}
                        THEN buildSkipped' = buildSkipped + 1
                             /\ UNCHANGED <<buildRows, buildCount>>
                        ELSE IF value.geometry = "invalid"
                        THEN buildSkipped' = buildSkipped + 1
                             /\ UNCHANGED <<buildRows, buildCount>>
                        ELSE /\ buildRows' = Append(buildRows, Row(value.GEOID[1], value.geometry))
                             /\ buildCount' = buildCount + 1
                             /\ UNCHANGED buildSkipped
                   /\ UNCHANGED <<source, buildFault, dbFile, build>>
    /\ UNCHANGED <<sqliteVars, rtreeVars, lruVars, lifeVars, gradeVars, downloadVars>>

\* source.read() gives done: the rows are inserted in one transaction, the
\* view is created, the file is vacuumed and closed
FinishBuild ==
    /\ build = "reading" /\ buildRead = Len(source)
    /\ IF buildFault = "read" \/ buildFault = "insert" \/ UniqueViolation(buildRows)
         THEN BuildFails
         ELSE /\ dbFile' = StoreFile(buildRows, TRUE)
              /\ build' = "done"
              /\ UNCHANGED <<source, buildFault, buildRows, buildCount, buildSkipped, buildRead>>
    /\ UNCHANGED <<sqliteVars, rtreeVars, lruVars, lifeVars, gradeVars, downloadVars>>

InitBuild ==
    /\ source \in SeqsUpTo(SourceRecords, MaxSource)
    /\ buildFault \in {"none", "missing", "read", "insert"}
    /\ dbFile \in {None, OldStore}
    /\ buildRows = <<>> /\ buildCount = 0 /\ buildSkipped = 0 /\ buildRead = 0
    /\ build = "idle"
    /\ SqliteOff /\ RtreeOff /\ LruOff /\ LifeOff /\ GradeOff /\ DownloadOff

NextBuild == CreateDatabase \/ ReadRecord \/ FinishBuild

SpecBuild == InitBuild /\ [][NextBuild]_vars

\* ------------------------------------------------------------------------
\* Claims about the build
\* ------------------------------------------------------------------------
\* C25 (as claimed): when createDatabase has failed, the path of the store
\* holds no file, or a file with every object of a finished build; never a
\* file with part of it.
C25_NoPartialOutput ==
    build = "failed" => (dbFile = None \/ dbFile[1].view)

\* C26: the ids of the rows of the store file are never empty and never
\* repeated, whatever the source repeats; a build that succeeds stores the
\* rows it collected.
C26_IdsUniqueNonEmpty ==
    /\ dbFile # None =>
          /\ \A i \in DOMAIN dbFile[1].rows : dbFile[1].rows[i].id # ""
          /\ \A i, j \in DOMAIN dbFile[1].rows :
                i # j => dbFile[1].rows[i].id # dbFile[1].rows[j].id
    /\ build = "done" => (dbFile # None /\ dbFile[1].rows = buildRows)

\* C26 witness: a build that succeeded and stored two rows
C26_Witness == build = "done" /\ Len(dbFile[1].rows) = 2

Storable(value) ==
    value.GEOID \notin {None, Some("")} /\ value.geometry \in {"Polygon", "MultiPolygon"}

\* C27 (as claimed): after a build the rows are the records with a non-empty
\* GEOID and a Polygon or MultiPolygon geometry, one row each, and every
\* other record is counted as skipped: count + skipped is the number of
\* records read.
C27_StoredOrSkipped ==
    build = "done" =>
        /\ LET kept == SelectSeq(source, Storable)
           IN  dbFile[1].rows = [i \in DOMAIN kept |-> Row(kept[i].GEOID[1], kept[i].geometry)]
        /\ buildCount + buildSkipped = Len(source)

\* ------------------------------------------------------------------------
\* Grade codes: formatGrade of the SQLite service and formatGradeLevel of
\* the R-tree service.  A string is the sequence of its characters.
\* ------------------------------------------------------------------------
\* characters of a grade code
MaxCodeLen == 2

Digits == <<"0", "1", "2", "3", "4", "5", "6", "7", "8", "9">>

CodeChars == {"0", "1", "2", "3", "9", "P", "K", "G", "U", "A"}

GradeCodes == SeqsUpTo(CodeChars, MaxCodeLen)

IsDigit(c) == \E i \in DOMAIN Digits : Digits[i] = c

DigitValue(c) == (CHOOSE i \in DOMAIN Digits : Digits[i] = c) - 1

RECURSIVE LeadingDigits(_)
LeadingDigits(str) ==
    IF str = <<>> \/ ~IsDigit(Head(str)) THEN <<>>
    ELSE <<Head(str)>> \o LeadingDigits(Tail(str))

RECURSIVE DigitsValue(_)
DigitsValue(ds) ==
    IF ds = <<>> THEN 0
    ELSE 10 * DigitsValue(SubSeq(ds, 1, Len(ds) - 1)) + DigitValue(ds[Len(ds)])

\* parseInt(grade, 10): the number written by the digits the string starts
\* with, NaN when it starts with none
parseInt(str) ==
    IF LeadingDigits(str) = <<>> THEN NaN ELSE Num(DigitsValue(LeadingDigits(str)))

\* num.toString() of a non-negative integer
RECURSIVE toString(_)
toString(n) ==
    IF n < 10 THEN <<Digits[n + 1]>>
    ELSE toString(n \div 10) \o <<Digits[(n % 10) + 1]>>

PreK == <<"P", "r", "e", "-", "K">>

Ungraded == <<"U", "n", "g", "r", "a", "d", "e", "d">>

Post12 == <<"P", "o", "s", "t", "-", "1", "2">>

Unknown == <<"U", "n", "k", "n", "o", "w", "n">>

\* gradeMap of formatGrade: PK, KG, '01' .. '12' and '13'
sqliteGradeMap ==
    [code \in {<<"P", "K">>, <<"K", "G">>, <<"1", "3">>}
              \cup {<<"0", Digits[d + 1]>> : d \in 1..9}
              \cup {<<"1", "0">>, <<"1", "1">>, <<"1", "2">>} |->
        IF code = <<"P", "K">> THEN PreK
        ELSE IF code = <<"K", "G">> THEN <<"K">>
        ELSE IF code = <<"1", "3">> THEN Post12
        ELSE IF Head(code) = "0" THEN Tail(code)
        ELSE code]

\* formatGrade(grade) of the SQLite service
formatGrade(g) ==
    IF g = None \/ g = Some(<<>>) THEN Some(Unknown)
    ELSE IF g[1] \in DOMAIN sqliteGradeMap THEN Some(sqliteGradeMap[g[1]])
    ELSE g

\* gradeMap of formatGradeLevel: PK, KG and UG
rtreeGradeMap ==
    [code \in {<<"P", "K">>, <<"K", "G">>, <<"U", "G">>} |->
        IF code = <<"P", "K">> THEN PreK
        ELSE IF code = <<"K", "G">> THEN <<"K">>
        ELSE Ungraded]

\* formatGradeLevel(grade) of the R-tree service
formatGradeLevel(g) ==
    IF g = None \/ g = Some(<<>>) THEN None
    ELSE IF g[1] \in DOMAIN rtreeGradeMap THEN Some(rtreeGradeMap[g[1]])
    ELSE IF ~isNaN(parseInt(g[1])) THEN Some(toString(parseInt(g[1]).v))
    ELSE g

\* Both services format the grade code of a row
FormatGrades ==
    /\ gradeShown = None
    /\ gradeShown' = Some([formatGrade |-> formatGrade(grade),
                           formatGradeLevel |-> formatGradeLevel(grade)])
    /\ UNCHANGED grade
    /\ UNCHANGED <<sqliteVars, rtreeVars, lruVars, lifeVars, buildVars, downloadVars>>

InitGrades ==
    /\ grade \in {None} \cup {Some(code) : code \in GradeCodes}
    /\ gradeShown = None
    /\ SqliteOff /\ RtreeOff /\ LruOff /\ LifeOff /\ BuildOff /\ DownloadOff

SpecGrades == InitGrades /\ [][FormatGrades]_vars

AllDigits(str) == str # <<>> /\ \A i \in DOMAIN str : IsDigit(str[i])

RECURSIVE StripZeros(_)
StripZeros(str) ==
    IF Len(str) > 1 /\ Head(str) = "0" THEN StripZeros(Tail(str)) ELSE str

\* C29 (as claimed): each service shows PK as Pre-K, KG as K, UG as Ungraded,
\* a code made of digits without its leading zeros (13 as 13), and any other
\* code unchanged.
C29_GradesNormalised ==
    (gradeShown # None /\ grade # None /\ grade # Some(<<>>)) =>
        LET code == grade[1]
            shown == IF code = <<"P", "K">> THEN PreK
                     ELSE IF code = <<"K", "G">> THEN <<"K">>
                     ELSE IF code = <<"U", "G">> THEN Ungraded
                     ELSE IF AllDigits(code) THEN StripZeros(code)
                     ELSE code
        IN  /\ gradeShown[1].formatGrade = Some(shown)
            /\ gradeShown[1].formatGradeLevel = Some(shown)

\* ------------------------------------------------------------------------
\* Claims about the shape of a lookup result
\* ------------------------------------------------------------------------
\* C30 (as claimed): every result of lookupSchoolDistrict is Exact (status
\* true, ids set, no approximate flag, no distance), Approximate (status
\* true, ids set, isApproximate true, approximateDistance set) or a failure
\* (status false, null ids); approximateDistance is set exactly when
\* isApproximate is true, and status true comes with a districtId.
C30_ThreeShapes ==
    \A q \in Answered :
        LET body == queries[q].body
        IN  /\ \/ /\ body.status /\ body.districtId # None /\ body.districtName # None
                  /\ body.isApproximate = None /\ body.approximateDistance = None
               \/ /\ body.status /\ body.districtId # None /\ body.districtName # None
                  /\ body.isApproximate = Some(TRUE) /\ body.approximateDistance # None
               \/ /\ ~body.status /\ body.districtId = None /\ body.districtName = None
            /\ (body.approximateDistance # None) <=> (body.isApproximate = Some(TRUE))
            /\ body.status => body.districtId # None

\* ------------------------------------------------------------------------
\* Claims about the course of one query
\* ------------------------------------------------------------------------
\* Every step of a handler that can be taken is taken in the end: the event
\* loop runs each continuation, and a read of the shapefile returns or throws
SpecRtreeFair ==
    /\ SpecRtree
    /\ \A q \in 1..MaxQueries :
          WF_vars(Begin(q) \/ LoadReturns(q) \/ LoadThrows(q) \/ Resume(q))

\* validation and search (0), the containment loop (1), the end (2)
Phase(query) ==
    IF query.pc = "new" THEN 0 ELSE IF query.pc \in {"loading", "have"} THEN 1 ELSE 2

Ended(query) == query.pc \in {"done", "raised"}

\* How many of the variants found, not found and error a body is
Variants(body) ==
    (IF body.status /\ body.error = None THEN 1 ELSE 0)
      + (IF ~body.status /\ body.error = None /\ body.districtId = None THEN 1 ELSE 0)
      + (IF ~body.status /\ body.error # None /\ body.districtId = None THEN 1 ELSE 0)

\* The lookup of a query has returned a value to its route handler
Returned(query) == query.pc = "done"

\* Every query ends, goes from validation and search to the containment loop
\* and to its end and never back, and takes each candidate once and in order
TerminatesInOrder ==
    /\ \A q \in 1..MaxQueries : <>Ended(queries[q])
    /\ [][\A q \in 1..MaxQueries :
             /\ Phase(queries'[q]) >= Phase(queries[q])
             /\ (Phase(queries'[q]) = 1 /\ Phase(queries[q]) = 1)
                   => \/ queries'[q].i > queries[q].i
                      \/ queries'[q].i = queries[q].i
                           /\ (queries'[q] = queries[q]
                               \/ (queries[q].pc = "loading" /\ queries'[q].pc = "have"))
             /\ Ended(queries[q]) => queries'[q] = queries[q]]_vars

\* C31: every query of the R-tree service ends; it goes from validation and
\* search to the containment loop and to its end and never back, the loop
\* takes each candidate once and in order, and a query that has ended has
\* returned one value and keeps it: found, not found or an error.
C31_QueryTerminates ==
    /\ TerminatesInOrder
    /\ [](\A q \in 1..MaxQueries :
             Ended(queries[q])
                 => Returned(queries[q]) /\ Variants(queries[q].body) = 1)

\* Every query that returns a value returns one of the three variants
OneVariantWhenReturned ==
    \A q \in 1..MaxQueries : Returned(queries[q]) => Variants(queries[q].body) = 1

\* The candidates of a looked-up item that decode and contain its point, as
\* positions in the list the bounding-box probe returned
HitsOf(it) ==
    LET candidates == stmtBbox(db, it.lng, it.lat)
    IN  {k \in 1..Len(candidates) :
            /\ Decodes(candidates[k])
            /\ booleanPointInPolygon(it.lng, it.lat, candidates[k].geometry)}

\* the ids of the first n rows of a list
IdsOf(seq, n) == [k \in 1..n |-> seq[k].districtId]

\* C32: in one lookup the bounding-box probe is the first probe; the nearest
\* probe, if issued, is the second and last one, the bounding-box probe has
\* returned, every candidate of it has been decoded and none that decodes
\* contains the point; an Exact result comes from a lookup that issued the
\* bounding-box probe alone.
C32_NearestAfterContainment ==
    \A i \in LookedItems :
        LET it == last.items[i]
            candidates == stmtBbox(db, it.lng, it.lat)
            issued == {k \in 1..Len(it.probes) : it.probes[k] = "nearest"}
        IN  /\ it.probes[1] = "bbox"
            /\ issued \subseteq {2}
            /\ Len(it.probes) <= 2
            /\ issued # {}
                  => /\ it.fault # "bbox"
                     /\ Len(it.decoded) >= Len(candidates)
                     /\ SubSeq(it.decoded, 1, Len(candidates))
                            = IdsOf(candidates, Len(candidates))
                     /\ HitsOf(it) = {}
            /\ IsExact(it.body) => issued = {}

\* C32 witness: a lookup has issued the nearest probe behind two candidates
\* that do not contain its point, and has ended Approximate
C32_Witness ==
    \E i \in LookedItems :
        /\ last.items[i].probes = <<"bbox", "nearest">>
        /\ Len(stmtBbox(db, last.items[i].lng, last.items[i].lat)) >= 2
        /\ IsApproximate(last.items[i].body)

\* C33: when several candidates of the bounding-box probe contain the point,
\* the lookup returns the first of them in the order of the probe, and the
\* rows it has decoded are the candidates up to that one and no other.
C33_FirstContainingWins ==
    \A i \in LookedItems :
        LET it == last.items[i]
            candidates == stmtBbox(db, it.lng, it.lat)
            hits == HitsOf(it)
        IN  (it.fault # "bbox" /\ Cardinality(hits) >= 2)
                => /\ IsExact(it.body)
                   /\ it.body.districtId[1] = candidates[MinOf(hits)].districtId
                   /\ it.decoded = IdsOf(candidates, MinOf(hits))

\* C33 witness: two candidates contain the point of a lookup that has ended,
\* and the first of them is not the first candidate
C33_Witness ==
    \E i \in LookedItems :
        /\ last.items[i].fault # "bbox"
        /\ Cardinality(HitsOf(last.items[i])) >= 2
        /\ MinOf(HitsOf(last.items[i])) >= 2
        /\ IsExact(last.items[i].body)

\* ------------------------------------------------------------------------
\* Claims about the bounding-box probe and the record index
\* ------------------------------------------------------------------------
\* min_lng <= lng <= max_lng and min_lat <= lat <= max_lat, on the numbers
Covers(r, lng, lat) ==
    /\ IsFinite(lng) /\ IsFinite(lat)
    /\ r.min_lng <= lng.v /\ lng.v <= r.max_lng
    /\ r.min_lat <= lat.v /\ lat.v <= r.max_lat

\* C34: the bounding-box probe of a lookup returns each stored row whose box
\* covers the point, edges included, once, and no other row; a lookup that
\* goes on to the nearest probe has decoded every covering row, and an Exact
\* result names a covering row.
C34_BboxProbeExact ==
    \A i \in LookedItems :
        LET it == last.items[i]
            candidates == stmtBbox(db, it.lng, it.lat)
            covering == {k \in 1..Len(db) : Covers(db[k], it.lng, it.lat)}
        IN  it.fault # "bbox"
                => /\ {candidates[k] : k \in 1..Len(candidates)} = {db[k] : k \in covering}
                   /\ Len(candidates) = Cardinality(covering)
                   /\ it.probes = <<"bbox", "nearest">>
                         => \A k \in covering :
                               \E d \in 1..Len(it.decoded) : it.decoded[d] = db[k].districtId
                   /\ IsExact(it.body)
                         => Covers(RowOf(it.body.districtId[1]), it.lng, it.lat)

\* C34 witness: a lookup has ended whose point lies on the upper edge of the
\* box of a row the probe returned, with another row in the store that does
\* not cover the point
C34_Witness ==
    \E i \in LookedItems :
        LET it == last.items[i]
            candidates == stmtBbox(db, it.lng, it.lat)
        IN  /\ it.fault # "bbox"
            /\ \E k \in 1..Len(candidates) :
                  /\ candidates[k].max_lng = it.lng.v \/ candidates[k].max_lat = it.lat.v
                  /\ \E d \in 1..Len(it.decoded) : it.decoded[d] = candidates[k].districtId
            /\ \E k \in 1..Len(db) : ~Covers(db[k], it.lng, it.lat)

\* The position in the shapefile of the record behind entry k of the index:
\* the k-th record with a polygonal geometry
PositionOf(k) ==
    LET polygonal == {j \in 1..Len(records) : records[j].type \in {"Polygon", "MultiPolygon"}}
    IN  CHOOSE j \in polygonal : Cardinality({m \in polygonal : m <= j}) = k

MaxRetries == 3

\* a catch block that waits after every failed attempt
Retrying_Always(a, n) == TRUE

\* if (attempt < maxRetries): a failed attempt other than the last is
\* followed by a delay
Retrying(a, n) == a < n

\* Math.pow(2, attempt) * 1000
Delay(a) == 2^a * 1000

\* What try { await fs.unlink(dest) } catch {} can leave at dest: nothing,
\* or, when unlink rejects, what was there
UnlinkOutcomes(file) == IF file = "absent" THEN {"absent"} ELSE {"absent", file}

\* attempt++ and the test of the for loop; past the loop download throws
NextAttempt ==
    /\ attempt' = attempt + 1
    /\ step' = IF attempt + 1 <= maxRetries THEN "fetch" ELSE "thrown"

\* fetch rejects, or resolves with a response that is not ok or has no body:
\* the attempt throws before a write stream exists
FetchFails ==
    /\ step = "fetch"
    /\ fetches' = fetches + 1
    /\ failures' = failures + 1
    /\ step' = "unlink"
    /\ UNCHANGED <<maxRetries, attempt, dest, stream, delays>>
    /\ UNCHANGED <<sqliteVars, rtreeVars, lruVars, lifeVars, buildVars, gradeVars>>

\* fetch resolves with a body: createWriteStream(dest) starts to open the
\* file and the body is piped into the stream
FetchReturns ==
    /\ step = "fetch"
    /\ fetches' = fetches + 1
    /\ stream' = "opening"
    /\ step' = "pipe"
    /\ UNCHANGED <<maxRetries, attempt, dest, failures, delays>>
    /\ UNCHANGED <<sqliteVars, rtreeVars, lruVars, lifeVars, buildVars, gradeVars>>

\* The open of a write stream completes: flag 'w' creates the file or
\* truncates it.  The stream may be the one of an attempt that has failed:
\* nothing destroys the stream when the body fails.
OpenCompletes ==
    /\ stream = "opening"
    /\ step \in {"pipe", "unlink", "delay", "fetch"}
    /\ stream' = "open"
    /\ dest' = "partial"
    /\ UNCHANGED <<maxRetries, attempt, step, fetches, failures, delays>>
    /\ UNCHANGED <<sqliteVars, rtreeVars, lruVars, lifeVars, buildVars, gradeVars>>

\* 'finish' of the write stream: the promise resolves and download returns
PipeFinish ==
    /\ step = "pipe"
    /\ stream = "open"
    /\ dest' = "complete"
    /\ stream' = "closed"
    /\ step' = "returned"
    /\ UNCHANGED <<maxRetries, attempt, fetches, failures, delays>>
    /\ UNCHANGED <<sqliteVars, rtreeVars, lruVars, lifeVars, buildVars, gradeVars>>

\* 'error' of res.body: the promise rejects; the write stream stays as it
\* is, opening or open
BodyError ==
    /\ step = "pipe"
    /\ failures' = failures + 1
    /\ step' = "unlink"
    /\ UNCHANGED <<maxRetries, attempt, dest, stream, fetches, delays>>
    /\ UNCHANGED <<sqliteVars, rtreeVars, lruVars, lifeVars, buildVars, gradeVars>>

\* 'error' of the write stream, from its open or from a write: the promise
\* rejects and the stream is closed
StreamError ==
    /\ step = "pipe"
    /\ stream' = "closed"
    /\ failures' = failures + 1
    /\ step' = "unlink"
    /\ UNCHANGED <<maxRetries, attempt, dest, fetches, delays>>
    /\ UNCHANGED <<sqliteVars, rtreeVars, lruVars, lifeVars, buildVars, gradeVars>>

\* The catch block once fs.unlink has settled: a delay is started, or the
\* loop goes on
Unlink ==
    /\ step = "unlink"
    /\ dest' \in UnlinkOutcomes(dest)
    /\ IF Retrying(attempt, maxRetries)
       THEN step' = "delay" /\ UNCHANGED attempt
       ELSE NextAttempt
    /\ UNCHANGED <<maxRetries, stream, fetches, failures, delays>>
    /\ UNCHANGED <<sqliteVars, rtreeVars, lruVars, lifeVars, buildVars, gradeVars>>

\* The timeout of the delay fires and the loop goes on
DelayElapsed ==
    /\ step = "delay"
    /\ delays' = Append(delays, Delay(attempt))
    /\ NextAttempt
    /\ UNCHANGED <<maxRetries, dest, stream, fetches, failures>>
    /\ UNCHANGED <<sqliteVars, rtreeVars, lruVars, lifeVars, buildVars, gradeVars>>

\* ensureLatestData calls download when the shapefile is missing; a zip of an
\* earlier run may lie at dest
InitDownload ==
    /\ maxRetries \in 1..MaxRetries
    /\ attempt = 1
    /\ step = "fetch"
    /\ dest \in {"absent", "complete"}
    /\ stream = "none"
    /\ fetches = 0 /\ failures = 0 /\ delays = <<>>
    /\ SqliteOff /\ RtreeOff /\ LruOff /\ LifeOff /\ BuildOff /\ GradeOff

NextDownload ==
    \/ FetchFails \/ FetchReturns \/ OpenCompletes \/ PipeFinish
    \/ BodyError \/ StreamError \/ Unlink \/ DelayElapsed

SpecDownload == InitDownload /\ [][NextDownload]_vars

\* C35: download calls fetch at most maxRetries times; when it has returned,
\* its last attempt was its only successful one; when it has thrown, it has
\* made maxRetries attempts and each has failed; the delay waited after
\* failed attempt k is 2^k seconds, one after each failed attempt but the
\* last.
C35_RetrySchedule ==
    /\ fetches <= maxRetries
    /\ step = "returned" => (fetches = attempt /\ failures = attempt - 1)
    /\ step = "thrown" => (fetches = maxRetries /\ failures = maxRetries)
    /\ step \in {"fetch", "pipe"} => failures = fetches - (IF step = "pipe" THEN 1 ELSE 0)
    /\ delays = [k \in 1..Len(delays) |-> 2^k * 1000]
    /\ Len(delays) = (IF step = "thrown" THEN maxRetries ELSE attempt) - 1

\* C35 witness: download has thrown after MaxRetries attempts
C35_Witness ==
    /\ step = "thrown"
    /\ maxRetries = MaxRetries
    /\ fetches = MaxRetries
    /\ Len(delays) = MaxRetries - 1

\* C36: after a failed attempt no file lies at dest when the next attempt
\* starts, and none when download throws.
C36_NoFileAfterFailure ==
    /\ (step = "fetch" /\ attempt > 1) => dest = "absent"
    /\ step = "thrown" => dest = "absent"

====
